---- MODULE Spec2Model ----
(***************************************************************************)
(* A model of sort-json: the depth-scoped sort engine, the formatter, the  *)
(* JSONC comment detector/stripper (src/src/sort.ts) and the per-file      *)
(* configuration resolver and its pattern matcher (config.ts, as used by   *)
(* src/src/cli.ts), and a run of the command line (src/src/cli.ts) over a *)
(* file system.                                                            *)
(*                                                                         *)
(* Text is a sequence of one-character strings.  A JSON value is a record  *)
(*   [kind, lit, items]                                                    *)
(* kind "num"/"str"/"null"/"bool" with lit the literal's characters,       *)
(* kind "arr" with items the elements (entries with an empty key), and     *)
(* kind "obj" with items the entries [key, val] in the object's own        *)
(* iteration order (what Object.entries returns).                          *)
(***************************************************************************)
EXTENDS Integers, Sequences, FiniteSets, TLC

VARIABLES
    doc,        \* sort engine: the parsed JSON value handed to sortKeysFromDepth
    sortFrom,   \* sort engine: cliOptions.sortFrom
    sortOrder,  \* sort engine: cliOptions.sortOrder (<<>> when undefined)
    sorted,     \* sort engine: sortKeysFromDepth(doc, cliOptions)
    resorted,   \* sort engine: sortKeysFromDepth(sorted, cliOptions)
    sortPc,     \* "idle", or "input" -> "sorted" -> "resorted"
    fmtValue,   \* formatter: the value handed to formatJson
    fmtIndent,  \* formatter: cliOptions.indent ({} when not given)
    fmtUseTabs, \* formatter: cliOptions.useTabs ({} when not given)
    fmtText,    \* formatter: the text formatJson returned
    fmtPc,      \* "idle", or "input" -> "formatted"
    content,    \* comments: the text of a file
    detected,   \* comments: detectJsonc(content)
    stripped,   \* comments: stripComments(content)
    cmtPc,      \* "idle", or "input" -> "detected" -> "stripped"
    cfgSortFrom,\* config: the configuration's sortFrom ({} when not given)
    cfgFiles,   \* config: the entries of the configuration's `files`, in
                \* Object.entries order
    filePath,   \* config: the path getFileConfig is asked about
    fileConfig, \* config: the FileConfigResult getFileConfig returned
    cfgPc,      \* "idle", or "loaded" -> "resolved"
    globPattern,\* matcher: the pattern handed to matchesPattern
    globPath,   \* matcher: the path handed to matchesPattern
    globMatched,\* matcher: what matchesPattern returned
    globPc,     \* "idle", or "input" -> "matched"
    argv,       \* run: process.argv.slice(2)
    rcFiles, \* run: the contents of the three configuration file names,
                \* in loadConfig's order ({}: the file cannot be read)
    disk,       \* run: the readable files, path -> contents
    written,    \* run: the files writeFile has written, in order
    cliOptions,    \* run: what parseArgs returned
    config,     \* run: what loadConfig returned
    found,      \* run: what expandGlob returned
    nextFile,   \* run: the position of main's loop in `found`
    results,    \* run: main's results, with the cliOptions of each call
    exitCode,   \* run: {} while running, then {the exit code}
    runPc       \* "idle", or "start" -> "argv" -> "loaded" -> "loop" -> "exited"

sortVars == <<doc, sortFrom, sortOrder, sorted, resorted, sortPc>>

fmtVars == <<fmtValue, fmtIndent, fmtUseTabs, fmtText, fmtPc>>

cmtVars == <<content, detected, stripped, cmtPc>>

cfgVars == <<cfgSortFrom, cfgFiles, filePath, fileConfig, cfgPc>>

globVars == <<globPattern, globPath, globMatched, globPc>>

runVars ==
    <<argv, rcFiles, disk, written, cliOptions, config, found, nextFile,
      results, exitCode, runPc>>

vars == <<sortVars, fmtVars, cmtVars, cfgVars, globVars, runVars>>

notSort == <<fmtVars, cmtVars, cfgVars, globVars, runVars>>
notFormat == <<sortVars, cmtVars, cfgVars, globVars, runVars>>
notComments == <<sortVars, fmtVars, cfgVars, globVars, runVars>>
notConfig == <<sortVars, fmtVars, cmtVars, globVars, runVars>>
notGlob == <<sortVars, fmtVars, cmtVars, cfgVars, runVars>>
notRun == <<sortVars, fmtVars, cmtVars, cfgVars, globVars>>

(***************************************************************************)
(* Bounds of the model.                                                    *)
(***************************************************************************)
MaxNodes == 4
MaxSortFrom == 2
MaxFormatNodes == 3
MaxIndent == 11
MaxLen == 6
MaxFiles == 2
MaxPatternLen == 4
MaxPathLen == 3
MaxRun == 3

(***************************************************************************)
(* Characters and strings.                                                 *)
(***************************************************************************)
Front(s) == SubSeq(s, 1, Len(s) - 1)

Range(s) == {s[i] : i \in DOMAIN s}

DigitChars == <<"0", "1", "2", "3", "4", "5", "6", "7", "8", "9">>

IsDigit(ch) == ch \in Range(DigitChars)

DigitValue(ch) == (CHOOSE i \in DOMAIN DigitChars : DigitChars[i] = ch) - 1

\* The ASCII characters from the space to the underscore, and from a to the
\* tilde, each in the order of their code units.
AsciiLow ==
    <<
      " ", "!", "\"", "#", "$", "%", "&", "'", "(", ")", "*", "+",
      ",", "-", ".", "/", "0", "1", "2", "3", "4", "5", "6", "7",
      "8", "9", ":", ";", "<", "=", ">", "?", "@", "A", "B", "C",
      "D", "E", "F", "G", "H", "I", "J", "K", "L", "M", "N", "O",
      "P", "Q", "R", "S", "T", "U", "V", "W", "X", "Y", "Z", "[",
      "\\", "]", "^", "_"
    >>

AsciiHigh ==
    <<
      "a", "b", "c", "d", "e", "f", "g", "h", "i", "j", "k", "l",
      "m", "n", "o", "p", "q", "r", "s", "t", "u", "v", "w", "x",
      "y", "z", "{", "|", "}", "~"
    >>

\* UTF-16 code unit of an ASCII character.
CodePoint(ch) ==
    IF \E i \in DOMAIN AsciiLow : AsciiLow[i] = ch
    THEN 31 + (CHOOSE i \in DOMAIN AsciiLow : AsciiLow[i] = ch)
    ELSE 96 + (CHOOSE i \in DOMAIN AsciiHigh : AsciiHigh[i] = ch)

IsUpper(ch) == CodePoint(ch) >= 65 /\ CodePoint(ch) <= 90

\* Lexicographic comparison of two sequences of integers: -1, 0 or 1.
RECURSIVE CompareWeights(_, _)
CompareWeights(x, y) ==
    IF x = <<>> /\ y = <<>> THEN 0
    ELSE IF x = <<>> THEN -1
    ELSE IF y = <<>> THEN 1
    ELSE IF Head(x) < Head(y) THEN -1
    ELSE IF Head(x) > Head(y) THEN 1
    ELSE CompareWeights(Tail(x), Tail(y))

\* Ordinal comparison, a < b ? -1 : a > b ? 1 : 0 on UTF-16 code units.
OrdinalCompare(a, b) ==
    CompareWeights([i \in DOMAIN a |-> CodePoint(a[i])],
                   [i \in DOMAIN b |-> CodePoint(b[i])])

\* String.prototype.localeCompare under the default (root) collation, for
\* digits and ASCII letters: the primary level compares the letters without
\* their case (digits before letters); only when the strings are equal at
\* the primary level does case decide, lower case first.
LocaleCompare(a, b) ==
    LET primary(s) ==
            [i \in DOMAIN s |->
                IF IsUpper(s[i]) THEN CodePoint(s[i]) + 32 ELSE CodePoint(s[i])]
        tertiary(s) == [i \in DOMAIN s |-> IF IsUpper(s[i]) THEN 1 ELSE 0]
        p == CompareWeights(primary(a), primary(b))
    IN  IF p # 0 THEN p ELSE CompareWeights(tertiary(a), tertiary(b))

(***************************************************************************)
(* JSON values.                                                            *)
(***************************************************************************)
Num1 == [kind |-> "num", lit |-> <<"1">>, items |-> <<>>]

Null == [kind |-> "null", lit |-> <<"n", "u", "l", "l">>, items |-> <<>>]

Str(chars) == [kind |-> "str", lit |-> chars, items |-> <<>>]

MkArr(elems) ==
    [kind |-> "arr", lit |-> <<>>,
     items |-> [i \in DOMAIN elems |-> [key |-> <<>>, val |-> elems[i]]]]

MkObj(entries) == [kind |-> "obj", lit |-> <<>>, items |-> entries]

KeysOf(value) == [i \in DOMAIN value.items |-> value.items[i].key]

\* The value bound to key k in an object that has k.
Get(value, k) ==
    value.items[CHOOSE i \in DOMAIN value.items : value.items[i].key = k].val

\* An "array index" property name: a canonical decimal integer.  Objects
\* enumerate these first, in ascending numeric order, before all other keys.
IsArrayIndex(k) ==
    /\ k # <<>>
    /\ \A i \in DOMAIN k : IsDigit(k[i])
    /\ Len(k) = 1 \/ k[1] # "0"

RECURSIVE IndexValue(_)
IndexValue(k) ==
    IF k = <<>> THEN 0 ELSE 10 * IndexValue(Front(k)) + DigitValue(k[Len(k)])

\* The iteration order of an object's own keys (OrdinaryOwnPropertyKeys):
\* holds of every object JSON.parse or Object.fromEntries builds.
IsOwnKeyOrder(keys) ==
    \A i, j \in DOMAIN keys :
        i < j =>
            /\ keys[i] # keys[j]
            /\ IsArrayIndex(keys[j]) =>
                  /\ IsArrayIndex(keys[i])
                  /\ IndexValue(keys[i]) < IndexValue(keys[j])

RECURSIVE InsertByIndex(_, _)
InsertByIndex(e, s) ==
    IF s = <<>> THEN <<e>>
    ELSE IF IndexValue(s[Len(s)].key) <= IndexValue(e.key) THEN Append(s, e)
    ELSE Append(InsertByIndex(e, Front(s)), s[Len(s)])

RECURSIVE SortByIndex(_)
SortByIndex(s) ==
    IF s = <<>> THEN <<>> ELSE InsertByIndex(s[Len(s)], SortByIndex(Front(s)))

\* Object.fromEntries(entries) for entries with distinct keys: the object
\* enumerates its array-index keys first, ascending, then the other keys in
\* insertion order.
ObjectFromEntries(entries) ==
    MkObj(SortByIndex(SelectSeq(entries, LAMBDA e : IsArrayIndex(e.key)))
          \o SelectSeq(entries, LAMBDA e : ~IsArrayIndex(e.key)))

(***************************************************************************)
(* The sort engine.                                                        *)
(***************************************************************************)
\* new Map(sortOrder.map((key, index) => [key, index])).get(k): the set is
\* empty for undefined; a key listed twice keeps its last index.
OrderIndex(k, order) ==
    IF k \in Range(order)
    THEN {CHOOSE i \in DOMAIN order :
              order[i] = k /\ \A j \in DOMAIN order : order[j] = k => j <= i}
    ELSE {}

TheOne(s) == CHOOSE x \in s : TRUE

DefaultCompareOrdinal(a, b) == OrdinalCompare(a, b)

\* ([a], [b]) => a.localeCompare(b)
DefaultCompare(a, b) == LocaleCompare(a, b)

CustomCompareSignSlip(a, b, order) ==
    LET aIndex == OrderIndex(a, order)
        bIndex == OrderIndex(b, order)
    IN  IF aIndex # {} /\ bIndex # {} THEN TheOne(aIndex) - TheOne(bIndex)
        ELSE IF aIndex # {} THEN 1
        ELSE IF bIndex # {} THEN 1
        ELSE DefaultCompare(a, b)

CustomCompareReversed(a, b, order) ==
    LET aIndex == OrderIndex(a, order)
        bIndex == OrderIndex(b, order)
    IN  IF aIndex # {} /\ bIndex # {} THEN TheOne(bIndex) - TheOne(aIndex)
        ELSE IF aIndex # {} THEN -1
        ELSE IF bIndex # {} THEN 1
        ELSE DefaultCompare(a, b)

\* The comparator of sortEntriesWithCustomOrder.
CustomCompare(a, b, order) ==
    LET aIndex == OrderIndex(a, order)
        bIndex == OrderIndex(b, order)
    IN  IF aIndex # {} /\ bIndex # {} THEN TheOne(aIndex) - TheOne(bIndex)
        ELSE IF aIndex # {} THEN -1
        ELSE IF bIndex # {} THEN 1
        ELSE DefaultCompare(a, b)

\* The comparator a call of entries.sort uses: the custom one when an order
\* is given, a.localeCompare(b) otherwise.
CompareEntries(x, y, order) ==
    IF order # <<>> THEN CustomCompare(x.key, y.key, order)
    ELSE DefaultCompare(x.key, y.key)

\* Array.prototype.sort with a comparator: a stable sort (insertion sort).
RECURSIVE InsertSorted(_, _, _)
InsertSorted(e, s, order) ==
    IF s = <<>> THEN <<e>>
    ELSE IF CompareEntries(s[Len(s)], e, order) <= 0 THEN Append(s, e)
    ELSE Append(InsertSorted(e, Front(s), order), s[Len(s)])

RECURSIVE ArraySort(_, _)
ArraySort(s, order) ==
    IF s = <<>> THEN <<>>
    ELSE InsertSorted(s[Len(s)], ArraySort(Front(s), order), order)

CustomOrderListedOnly(entries, order) ==
    ArraySort(SelectSeq(entries, LAMBDA e : e.key \in Range(order)), order)

sortEntriesWithCustomOrder(entries, order) == ArraySort(entries, order)

ShouldSortStrict(currentDepth, from) == currentDepth > from

\* if (currentDepth >= sortFrom)
ShouldSort(currentDepth, from) == currentDepth >= from

\* if (currentDepth === 0 && sortOrder && sortOrder.length > 0)
UseCustomOrder(currentDepth, order) == currentDepth = 0 /\ order # <<>>

ElementDepthDeeper(currentDepth) == currentDepth + 1

\* The depth array elements are processed at.
ElementDepth(currentDepth) == currentDepth

\* The depth a mapping's values are processed at.
ChildDepth(currentDepth) == currentDepth + 1

ElementOrderKept(order) == order

\* The sortOrder array elements are processed with: sortOrder: undefined.
ElementOrder(order) == <<>>

RECURSIVE sortKeysFromDepth(_, _, _, _)
sortKeysFromDepth(value, from, order, currentDepth) ==
    IF value.kind = "arr"
    THEN MkArr([i \in DOMAIN value.items |->
                   sortKeysFromDepth(value.items[i].val, from,
                                     ElementOrder(order),
                                     ElementDepth(currentDepth))])
    ELSE IF value.kind = "obj"
    THEN LET entries == value.items
             processedEntries ==
                 IF ShouldSort(currentDepth, from)
                 THEN IF UseCustomOrder(currentDepth, order)
                      THEN sortEntriesWithCustomOrder(entries, order)
                      ELSE ArraySort(entries, <<>>)
                 ELSE entries
         IN  ObjectFromEntries(
                 [i \in DOMAIN processedEntries |->
                     [key |-> processedEntries[i].key,
                      val |-> sortKeysFromDepth(processedEntries[i].val, from,
                                                <<>>, ChildDepth(currentDepth))]])
    ELSE value

(***************************************************************************)
(* The formatter.                                                          *)
(***************************************************************************)
RECURSIVE Concat(_)
Concat(ss) == IF ss = <<>> THEN <<>> ELSE Head(ss) \o Concat(Tail(ss))

RECURSIVE Join(_, _)
Join(ss, sep) ==
    IF ss = <<>> THEN <<>>
    ELSE IF Len(ss) = 1 THEN ss[1]
    ELSE ss[1] \o sep \o Join(Tail(ss), sep)

\* " ".repeat(n)
Spaces(n) == [i \in 1..n |-> " "]

\* QuoteJSONString: the string in double quotes, with ", \ and the line
\* feed escaped.
QuoteJSONString(chars) ==
    <<"\"">>
    \o Concat([i \in DOMAIN chars |->
                  IF chars[i] = "\"" THEN <<"\\", "\"">>
                  ELSE IF chars[i] = "\\" THEN <<"\\", "\\">>
                  ELSE IF chars[i] = "\n" THEN <<"\\", "n">>
                  ELSE <<chars[i]>>])
    \o <<"\"">>

\* JSON.stringify's gap for a string `space`: its first 10 characters.
StringifyGap(space) == SubSeq(space, 1, IF Len(space) < 10 THEN Len(space) ELSE 10)

\* SerializeJSONProperty / SerializeJSONObject / SerializeJSONArray with
\* the current indentation `indent` and the gap `gap`.
RECURSIVE SerializeJSON(_, _, _)
SerializeJSON(value, gap, indent) ==
    LET stepback == indent
        inner == indent \o gap
        open == IF value.kind = "obj" THEN <<"{">> ELSE <<"[">>
        close == IF value.kind = "obj" THEN <<"}">> ELSE <<"]">>
        partial ==
            [i \in DOMAIN value.items |->
                (IF value.kind = "obj"
                 THEN QuoteJSONString(value.items[i].key) \o <<":">>
                      \o (IF gap # <<>> THEN <<" ">> ELSE <<>>)
                 ELSE <<>>)
                \o SerializeJSON(value.items[i].val, gap, inner)]
    IN  IF value.kind \in {"obj", "arr"}
        THEN IF partial = <<>> THEN open \o close
             ELSE IF gap = <<>> THEN open \o Join(partial, <<",">>) \o close
             ELSE open \o <<"\n">> \o inner
                  \o Join(partial, <<",", "\n">> \o inner)
                  \o <<"\n">> \o stepback \o close
        ELSE IF value.kind = "str" THEN QuoteJSONString(value.lit)
        ELSE value.lit

\* JSON.stringify(value, null, space) for a string `space`.
JSONStringify(value, space) == SerializeJSON(value, StringifyGap(space), <<>>)

\* formatJson(value, {indent, useTabs}); an option not given is {}.
formatJson(value, indentOpt, useTabsOpt) ==
    LET indent == IF indentOpt = {} THEN 2 ELSE TheOne(indentOpt)
        useTabs == IF useTabsOpt = {} THEN FALSE ELSE TheOne(useTabsOpt)
        indentStr == IF useTabs THEN <<"\t">> ELSE Spaces(indent)
    IN  JSONStringify(value, indentStr) \o <<"\n">>

(***************************************************************************)
(* The comment detector and stripper.                                      *)
(***************************************************************************)
Quote == "\""
Backslash == "\\"
LineFeed == "\n"

\* The characters the regular expression's `.` does not match.
IsLineTerminator(ch) == ch \in {"\n", "\r"}

StringBodyEndNoEscapes(c, i) ==
    IF \E q \in i..Len(c) : c[q] = Quote
    THEN CHOOSE q \in i..Len(c) : c[q] = Quote /\ \A j \in i..(q - 1) : c[j] # Quote
    ELSE 0

\* The match of (?:[^"\\]|\\.)*" from position i, the opening quote being
\* at i - 1: the position of the closing quote, or 0 when there is no
\* match.  Each character starts at most one alternative ([^"\\] one
\* character, \\. a backslash and a character that is no line
\* terminator), so backtracking finds no match the greedy scan misses.
RECURSIVE StringBodyEnd(_, _)
StringBodyEnd(c, i) ==
    IF i > Len(c) THEN 0
    ELSE IF c[i] = Quote THEN i
    ELSE IF c[i] = Backslash
    THEN IF i + 1 <= Len(c) /\ ~IsLineTerminator(c[i + 1])
         THEN StringBodyEnd(c, i + 2)
         ELSE 0
    ELSE StringBodyEnd(c, i + 1)

\* content.replace(/"(?:[^"\\]|\\.)*"/g, '""') from position p on: the
\* matches are taken leftmost first and do not overlap.
RECURSIVE ReplaceStrings(_, _)
ReplaceStrings(c, p) ==
    IF p > Len(c) THEN <<>>
    ELSE IF c[p] = Quote /\ StringBodyEnd(c, p + 1) # 0
    THEN <<Quote, Quote>> \o ReplaceStrings(c, StringBodyEnd(c, p + 1) + 1)
    ELSE <<c[p]>> \o ReplaceStrings(c, p + 1)

\* /\/\/|\/\*/.test(text)
HasCommentStart(text) ==
    \E i \in 1..(Len(text) - 1) : text[i] = "/" /\ text[i + 1] \in {"/", "*"}

detectJsonc(c) == HasCommentStart(ReplaceStrings(c, 1))

SkipLineCommentWithNewline(c, i) ==
    IF \E j \in i..Len(c) : c[j] = LineFeed
    THEN (CHOOSE j \in i..Len(c) :
              c[j] = LineFeed /\ \A k \in i..(j - 1) : c[k] # LineFeed) + 1
    ELSE Len(c) + 1

\* while (i < content.length && content[i] !== "\n") i++
\* Positions count from 1 here: position i is the code's index i - 1.
RECURSIVE SkipLineComment(_, _)
SkipLineComment(c, i) ==
    IF i <= Len(c) /\ c[i] # LineFeed THEN SkipLineComment(c, i + 1) ELSE i

\* while (i < content.length - 1) { if (content[i] === "*" &&
\* content[i + 1] === "/") { i += 2; break; } i++; }
RECURSIVE SkipBlockComment(_, _)
SkipBlockComment(c, i) ==
    IF i < Len(c)
    THEN IF c[i] = "*" /\ c[i + 1] = "/" THEN i + 2
         ELSE SkipBlockComment(c, i + 1)
    ELSE i

EscapesNever(escaped, char) == FALSE

\* else if (char === "\\") escaped = true: the value of escaped after a
\* character inside a string.
Escapes(escaped, char) == ~escaped /\ char = Backslash

\* The while loop of stripComments, from position i.
RECURSIVE StripLoop(_, _, _, _, _)
StripLoop(c, i, inString, escaped, result) ==
    IF i > Len(c) THEN result
    ELSE LET char == c[i]
             next == IF i + 1 <= Len(c) THEN c[i + 1] ELSE "undefined"
         IN  IF inString
             THEN StripLoop(c, i + 1,
                            ~(~escaped /\ ~Escapes(escaped, char) /\ char = Quote),
                            Escapes(escaped, char),
                            Append(result, char))
             ELSE IF char = Quote
             THEN StripLoop(c, i + 1, TRUE, escaped, Append(result, char))
             ELSE IF char = "/" /\ next = "/"
             THEN StripLoop(c, SkipLineComment(c, i), inString, escaped, result)
             ELSE IF char = "/" /\ next = "*"
             THEN StripLoop(c, SkipBlockComment(c, i + 2), inString, escaped, result)
             ELSE StripLoop(c, i + 1, inString, escaped, Append(result, char))

stripComments(c) == StripLoop(c, 1, FALSE, FALSE, <<>>)

(***************************************************************************)
(* JSON.parse, for texts of objects, arrays, strings (with the escapes     *)
(* \" \\ \/ \n), numbers in their canonical decimal form and null, true     *)
(* and false.  A parse step returns [ok, val, pos]: whether a value was     *)
(* read, the value, and the position after it.                              *)
(***************************************************************************)
IsJSONWhitespace(ch) == ch \in {" ", "\n", "\t", "\r"}

RECURSIVE SkipWhitespace(_, _)
SkipWhitespace(c, i) ==
    IF i <= Len(c) /\ IsJSONWhitespace(c[i]) THEN SkipWhitespace(c, i + 1) ELSE i

ParseFailure == [ok |-> FALSE, val |-> Null, pos |-> 0]

Parsed(value, next) == [ok |-> TRUE, val |-> value, pos |-> next]

\* The characters of a string literal whose opening quote is before i.
RECURSIVE ParseStringBody(_, _, _)
ParseStringBody(c, i, acc) ==
    IF i > Len(c) THEN ParseFailure
    ELSE IF c[i] = "\"" THEN Parsed(Str(acc), i + 1)
    ELSE IF c[i] = "\\"
    THEN IF i + 1 > Len(c) THEN ParseFailure
         ELSE IF c[i + 1] \in {"\"", "\\", "/"}
         THEN ParseStringBody(c, i + 2, Append(acc, c[i + 1]))
         ELSE IF c[i + 1] = "n" THEN ParseStringBody(c, i + 2, Append(acc, "\n"))
         ELSE ParseFailure
    ELSE IF c[i] \in {"\n", "\t", "\r"} THEN ParseFailure
    ELSE ParseStringBody(c, i + 1, Append(acc, c[i]))

RECURSIVE SkipDigits(_, _)
SkipDigits(c, i) ==
    IF i <= Len(c) /\ IsDigit(c[i]) THEN SkipDigits(c, i + 1) ELSE i

\* -? (0 | [1-9][0-9]*) (. [0-9]+)?
ParseNumber(c, i) ==
    LET start == IF i <= Len(c) /\ c[i] = "-" THEN i + 1 ELSE i
        intEnd == IF start <= Len(c) /\ c[start] = "0" THEN start + 1
                  ELSE SkipDigits(c, start)
        hasFraction == intEnd <= Len(c) /\ c[intEnd] = "."
        fracEnd == IF hasFraction THEN SkipDigits(c, intEnd + 1) ELSE intEnd
    IN  IF intEnd = start \/ (hasFraction /\ fracEnd = intEnd + 1)
        THEN ParseFailure
        ELSE Parsed([kind |-> "num", lit |-> SubSeq(c, i, fracEnd - 1),
                     items |-> <<>>], fracEnd)

ParseWord(c, i, word, value) ==
    IF i + Len(word) - 1 <= Len(c) /\ SubSeq(c, i, i + Len(word) - 1) = word
    THEN Parsed(value, i + Len(word))
    ELSE ParseFailure

JsonTrue == [kind |-> "bool", lit |-> <<"t", "r", "u", "e">>, items |-> <<>>]

JsonFalse == [kind |-> "bool", lit |-> <<"f", "a", "l", "s", "e">>, items |-> <<>>]

\* CreateDataProperty on the entries of an object under construction: a
\* key met again keeps its place and takes the new value.
DefineProperty(entries, k, v) ==
    IF \E i \in DOMAIN entries : entries[i].key = k
    THEN [i \in DOMAIN entries |->
             IF entries[i].key = k THEN [key |-> k, val |-> v] ELSE entries[i]]
    ELSE Append(entries, [key |-> k, val |-> v])

RECURSIVE ParseValue(_, _)
RECURSIVE ParseMembers(_, _, _)
RECURSIVE ParseElements(_, _, _)
\* The value that starts at i (white space before it already skipped).
ParseValue(c, i) ==
    IF i > Len(c) THEN ParseFailure
    ELSE IF c[i] = "{"
    THEN LET j == SkipWhitespace(c, i + 1)
         IN  IF j <= Len(c) /\ c[j] = "}" THEN Parsed(MkObj(<<>>), j + 1)
             ELSE ParseMembers(c, j, <<>>)
    ELSE IF c[i] = "["
    THEN LET j == SkipWhitespace(c, i + 1)
         IN  IF j <= Len(c) /\ c[j] = "]" THEN Parsed(MkArr(<<>>), j + 1)
             ELSE ParseElements(c, j, <<>>)
    ELSE IF c[i] = "\"" THEN ParseStringBody(c, i + 1, <<>>)
    ELSE IF c[i] = "n" THEN ParseWord(c, i, Null.lit, Null)
    ELSE IF c[i] = "t" THEN ParseWord(c, i, JsonTrue.lit, JsonTrue)
    ELSE IF c[i] = "f" THEN ParseWord(c, i, JsonFalse.lit, JsonFalse)
    ELSE ParseNumber(c, i)

\* The members of an object from i (a key is due), entries read so far.
ParseMembers(c, i, entries) ==
    IF i > Len(c) \/ c[i] # "\"" THEN ParseFailure
    ELSE LET k == ParseStringBody(c, i + 1, <<>>)
             colon == SkipWhitespace(c, k.pos)
         IN  IF ~k.ok \/ colon > Len(c) \/ c[colon] # ":" THEN ParseFailure
             ELSE LET v == ParseValue(c, SkipWhitespace(c, colon + 1))
                      after == SkipWhitespace(c, v.pos)
                      now == DefineProperty(entries, k.val.lit, v.val)
                  IN  IF ~v.ok \/ after > Len(c) THEN ParseFailure
                      ELSE IF c[after] = "}"
                      THEN Parsed(ObjectFromEntries(now), after + 1)
                      ELSE IF c[after] = ","
                      THEN ParseMembers(c, SkipWhitespace(c, after + 1), now)
                      ELSE ParseFailure

\* The elements of an array from i (a value is due), elements read so far.
ParseElements(c, i, elems) ==
    LET v == ParseValue(c, i)
        after == SkipWhitespace(c, v.pos)
    IN  IF ~v.ok \/ after > Len(c) THEN ParseFailure
        ELSE IF c[after] = "]" THEN Parsed(MkArr(Append(elems, v.val)), after + 1)
        ELSE IF c[after] = ","
        THEN ParseElements(c, SkipWhitespace(c, after + 1), Append(elems, v.val))
        ELSE ParseFailure

\* JSON.parse(text): {} when it throws a SyntaxError, else {the value}.
JSONParse(text) ==
    LET v == ParseValue(text, SkipWhitespace(text, 1))
    IN  IF v.ok /\ SkipWhitespace(text, v.pos) = Len(text) + 1
        THEN {v.val} ELSE {}

(***************************************************************************)
(* The configuration resolver.                                             *)
(***************************************************************************)
\* DEFAULT_CONFIG.sortFrom
DefaultSortFrom == 1

\* x ?? d for an optional value x (a set of at most one element).
OrElse(x, d) == IF x = {} THEN d ELSE TheOne(x)

\* The regular expression matchesPattern builds from a glob pattern, as a
\* sequence of tokens: "lit" one literal character ("." is escaped), "star"
\* [^/]*, "any" .* and "optdir" (.*/)?.  The patterns hold letters, ".",
\* "/" and "*" only.
RECURSIVE GlobTokens(_)
GlobTokens(p) ==
    IF p = <<>> THEN <<>>
    ELSE IF Len(p) >= 2 /\ p[1] = "*" /\ p[2] = "*"
    THEN <<[t |-> "any", c |-> ""]>> \o GlobTokens(SubSeq(p, 3, Len(p)))
    ELSE IF p[1] = "*" THEN <<[t |-> "star", c |-> ""]>> \o GlobTokens(Tail(p))
    ELSE <<[t |-> "lit", c |-> p[1]]>> \o GlobTokens(Tail(p))

LeadingGlobstarKept(tokens) == tokens

\* if (regexPattern.startsWith(".*/")) regexPattern = "(.*/)?" + the rest
LeadingGlobstar(tokens) ==
    IF Len(tokens) >= 2 /\ tokens[1].t = "any" /\ tokens[2] = [t |-> "lit", c |-> "/"]
    THEN <<[t |-> "optdir", c |-> ""]>> \o SubSeq(tokens, 3, Len(tokens))
    ELSE tokens

\* new RegExp(`^${regexPattern}$`).test(s) for the token sequence ts.
RECURSIVE RegexTest(_, _)
RegexTest(ts, s) ==
    LET rest(k) == SubSeq(s, k + 1, Len(s))
    IN  IF ts = <<>> THEN s = <<>>
        ELSE CASE ts[1].t = "lit" ->
                    s # <<>> /\ s[1] = ts[1].c /\ RegexTest(Tail(ts), Tail(s))
               [] ts[1].t = "star" ->
                    \E k \in 0..Len(s) :
                        /\ \A i \in 1..k : s[i] # "/"
                        /\ RegexTest(Tail(ts), rest(k))
               [] ts[1].t = "any" ->
                    \E k \in 0..Len(s) : RegexTest(Tail(ts), rest(k))
               [] ts[1].t = "optdir" ->
                    \/ RegexTest(Tail(ts), s)
                    \/ \E k \in 1..Len(s) : s[k] = "/" /\ RegexTest(Tail(ts), rest(k))

matchesPattern(path, pattern) ==
    \/ path = pattern
    \/ RegexTest(LeadingGlobstar(GlobTokens(pattern)), path)

\* (pattern.match(/\*\*/g) || []).length: the matches do not overlap.
RECURSIVE CountDoubleStars(_)
CountDoubleStars(p) ==
    IF Len(p) < 2 THEN 0
    ELSE IF p[1] = "*" /\ p[2] = "*" THEN 1 + CountDoubleStars(SubSeq(p, 3, Len(p)))
    ELSE CountDoubleStars(Tail(p))

CountChar(p, ch) == Cardinality({i \in DOMAIN p : p[i] = ch})

getPatternSpecificity(pattern) ==
    LET doubleStarCount == CountDoubleStars(pattern)
        singleStarCount == CountChar(pattern, "*") - doubleStarCount * 2
    IN  (IF CountChar(pattern, "*") = 0 THEN 1000 ELSE 0)
        + CountChar(pattern, "/") * 10
        - doubleStarCount * 5
        + singleStarCount * 1
        + Len(pattern)

\* (a, b) => b.score - a.score
CompareMatches(a, b) == b.score - a.score

\* matches.sort(...): a stable sort.
RECURSIVE InsertMatch(_, _)
InsertMatch(m, s) ==
    IF s = <<>> THEN <<m>>
    ELSE IF CompareMatches(s[Len(s)], m) <= 0 THEN Append(s, m)
    ELSE Append(InsertMatch(m, Front(s)), s[Len(s)])

RECURSIVE SortMatches(_)
SortMatches(s) ==
    IF s = <<>> THEN <<>> ELSE InsertMatch(s[Len(s)], SortMatches(Front(s)))

\* The first declared matching entry is applied, whatever the scores.
getFileConfigFirstMatch(path, configSortFrom, files) ==
    LET base == OrElse(configSortFrom, DefaultSortFrom)
        matching == SelectSeq(files, LAMBDA f : matchesPattern(path, f.pattern))
    IN  IF matching = <<>>
        THEN [sortFrom |-> base, ignore |-> FALSE, sortOrder |-> {},
              matchedPattern |-> {}]
        ELSE [sortFrom |-> OrElse(matching[1].config.sortFrom, base),
              ignore |-> OrElse(matching[1].config.ignore, FALSE),
              sortOrder |-> matching[1].config.sortOrder,
              matchedPattern |-> {matching[1].pattern}]

\* getFileConfig(filePath, config), config.files being the entries
\* [pattern, config] in Object.entries order.
getFileConfig(path, configSortFrom, files) ==
    LET baseConfig ==
            [sortFrom |-> OrElse(configSortFrom, DefaultSortFrom),
             ignore |-> FALSE, sortOrder |-> {}, matchedPattern |-> {}]
        matches ==
            [i \in DOMAIN files |->
                [pattern |-> files[i].pattern, config |-> files[i].config,
                 score |-> getPatternSpecificity(files[i].pattern)]]
        matching == SelectSeq(matches, LAMBDA m : matchesPattern(path, m.pattern))
        bestMatch == SortMatches(matching)[1]
    IN  IF matching = <<>> THEN baseConfig
        ELSE [sortFrom |-> OrElse(bestMatch.config.sortFrom, baseConfig.sortFrom),
              ignore |-> OrElse(bestMatch.config.ignore, FALSE),
              sortOrder |-> bestMatch.config.sortOrder,
              matchedPattern |-> {bestMatch.pattern}]

(***************************************************************************)
(* The command line: parseArgs, loadConfig, expandGlob, processFile.       *)
(***************************************************************************)
\* parseInt(s, 10) of an argument without white space: {} for NaN.
ParseInt(s) ==
    LET negative == s # <<>> /\ s[1] = "-"
        start == IF s # <<>> /\ s[1] \in {"-", "+"} THEN 2 ELSE 1
        stop == SkipDigits(s, start)
        magnitude == IndexValue(SubSeq(s, start, stop - 1))
    IN  IF stop = start THEN {}
        ELSE {IF negative THEN 0 - magnitude ELSE magnitude}

\* parseInt(args[i], 10) || fallback; args[i] is undefined past the end.
ParseIntOr(args, i, fallback) ==
    LET n == IF i > Len(args) THEN {} ELSE ParseInt(args[i])
    IN  IF n = {} \/ n = {0} THEN fallback ELSE TheOne(n)

DefaultOptions ==
    [check |-> FALSE, write |-> TRUE, force |-> FALSE, indent |-> 2,
     tabs |-> FALSE, sortFrom |-> {}, files |-> <<>>]

\* The loop of parseArgs from args[i] on; the patterns are kept in
\* options.files.
RECURSIVE ParseArgsFrom(_, _, _)
ParseArgsFrom(args, i, options) ==
    IF i > Len(args) THEN options
    ELSE LET arg == args[i]
         IN  IF arg \in {<<"-", "c">>, <<"-", "-", "c", "h", "e", "c", "k">>}
             THEN ParseArgsFrom(args, i + 1,
                      [options EXCEPT !.check = TRUE, !.write = FALSE])
             ELSE IF arg \in {<<"-", "w">>, <<"-", "-", "w", "r", "i", "t", "e">>}
             THEN ParseArgsFrom(args, i + 1, [options EXCEPT !.write = TRUE])
             ELSE IF arg \in {<<"-", "f">>, <<"-", "-", "f", "o", "r", "c", "e">>}
             THEN ParseArgsFrom(args, i + 1, [options EXCEPT !.force = TRUE])
             ELSE IF arg \in {<<"-", "i">>, <<"-", "-", "i", "n", "d", "e", "n", "t">>}
             THEN ParseArgsFrom(args, i + 2,
                      [options EXCEPT !.indent = ParseIntOr(args, i + 1, 2)])
             ELSE IF arg = <<"-", "-", "t", "a", "b", "s">>
             THEN ParseArgsFrom(args, i + 1, [options EXCEPT !.tabs = TRUE])
             ELSE IF arg = <<"-", "-", "s", "o", "r", "t", "-", "f", "r", "o", "m">>
             THEN ParseArgsFrom(args, i + 2,
                      [options EXCEPT !.sortFrom = {ParseIntOr(args, i + 1, 0)}])
             ELSE IF arg # <<>> /\ arg[1] = "-"
             THEN ParseArgsFrom(args, i + 1, options)
             ELSE ParseArgsFrom(args, i + 1,
                      [options EXCEPT !.files = Append(@, arg)])

parseArgs(args) == ParseArgsFrom(args, 1, DefaultOptions)

HasKey(value, k) == \E i \in DOMAIN value.items : value.items[i].key = k

IsInteger(value) == value.kind = "num" /\ "." \notin Range(value.lit)

IntegerValue(value) ==
    IF value.lit[1] = "-" THEN 0 - IndexValue(Tail(value.lit))
    ELSE IndexValue(value.lit)

\* Type.Integer({ minimum: 0 })
CheckSortFrom(value) == IsInteger(value) /\ IntegerValue(value) >= 0

\* Type.Array(Type.String())
CheckStringArray(value) ==
    /\ value.kind = "arr"
    /\ \A i \in DOMAIN value.items : value.items[i].val.kind = "str"

\* Value.Check(FileConfigSchema, value)
CheckFileConfig(value) ==
    /\ value.kind = "obj"
    /\ \A i \in DOMAIN value.items :
          \/ /\ value.items[i].key = <<"s", "o", "r", "t", "F", "r", "o", "m">>
             /\ CheckSortFrom(value.items[i].val)
          \/ /\ value.items[i].key = <<"i", "g", "n", "o", "r", "e">>
             /\ value.items[i].val.kind = "bool"

\* Value.Check(ConfigSchema, value)
CheckConfig(value) ==
    /\ value.kind = "obj"
    /\ \A i \in DOMAIN value.items :
          LET k == value.items[i].key
              v == value.items[i].val
          IN  \/ k = <<"$", "s", "c", "h", "e", "m", "a">> /\ v.kind = "str"
              \/ k = <<"i", "n", "c", "l", "u", "d", "e">> /\ CheckStringArray(v)
              \/ k = <<"i", "g", "n", "o", "r", "e">> /\ CheckStringArray(v)
              \/ k = <<"s", "o", "r", "t", "F", "r", "o", "m">> /\ CheckSortFrom(v)
              \/ /\ k = <<"f", "i", "l", "e", "s">>
                 /\ v.kind = "obj"
                 /\ \A j \in DOMAIN v.items : CheckFileConfig(v.items[j].val)

\* The strings of an array of strings.
Strings(value) == [i \in DOMAIN value.items |-> value.items[i].val.lit]

\* A FileConfig as getFileConfig reads it: each property {} when absent.
FileConfigOf(value) ==
    [sortFrom |-> IF HasKey(value, <<"s", "o", "r", "t", "F", "r", "o", "m">>)
                  THEN {IntegerValue(Get(value, <<"s", "o", "r", "t", "F", "r", "o", "m">>))} ELSE {},
     ignore |-> IF HasKey(value, <<"i", "g", "n", "o", "r", "e">>)
                THEN {Get(value, <<"i", "g", "n", "o", "r", "e">>) = JsonTrue} ELSE {},
     sortOrder |-> IF HasKey(value, <<"s", "o", "r", "t", "O", "r", "d", "e", "r">>)
                   THEN {Strings(Get(value, <<"s", "o", "r", "t", "O", "r", "d", "e", "r">>))} ELSE {}]

DefaultInclude == <<<<"*", "*", "/", "*", ".", "j", "s", "o", "n">>>>

\* DEFAULT_CONFIG
DefaultConfig ==
    [include |-> DefaultInclude, sortFrom |-> {DefaultSortFrom}, files |-> <<>>]

\* mergeWithDefaults(parsed) for a parsed document that passed the check.
mergeWithDefaults(value) ==
    [include |-> IF HasKey(value, <<"i", "n", "c", "l", "u", "d", "e">>)
                 THEN Strings(Get(value, <<"i", "n", "c", "l", "u", "d", "e">>)) ELSE DefaultInclude,
     sortFrom |-> IF HasKey(value, <<"s", "o", "r", "t", "F", "r", "o", "m">>)
                  THEN {IntegerValue(Get(value, <<"s", "o", "r", "t", "F", "r", "o", "m">>))}
                  ELSE {DefaultSortFrom},
     files |-> IF HasKey(value, <<"f", "i", "l", "e", "s">>)
               THEN LET f == Get(value, <<"f", "i", "l", "e", "s">>)
                    IN  [i \in DOMAIN f.items |->
                            [pattern |-> f.items[i].key,
                             config |-> FileConfigOf(f.items[i].val)]]
               ELSE <<>>]

\* What loadConfig does with one candidate: "next" (not readable or not
\* JSON), "invalid" (ConfigValidationError) or "use".
CandidateOutcomeLenient(candidate) ==
    IF candidate = {} \/ JSONParse(TheOne(candidate)) = {} THEN "next"
    ELSE IF ~CheckConfig(TheOne(JSONParse(TheOne(candidate)))) THEN "next"
    ELSE "use"

CandidateOutcome(candidate) ==
    IF candidate = {} \/ JSONParse(TheOne(candidate)) = {} THEN "next"
    ELSE IF ~CheckConfig(TheOne(JSONParse(TheOne(candidate)))) THEN "invalid"
    ELSE "use"

\* loadConfig(): the candidates are the contents of CONFIG_FILE_NAMES, in
\* that order ({}: the file cannot be read).
RECURSIVE LoadFrom(_, _)
LoadFrom(candidates, i) ==
    IF i > Len(candidates) THEN [invalid |-> FALSE, config |-> DefaultConfig]
    ELSE LET outcome == CandidateOutcome(candidates[i])
         IN  IF outcome = "next" THEN LoadFrom(candidates, i + 1)
             ELSE IF outcome = "invalid"
             THEN [invalid |-> TRUE, config |-> DefaultConfig]
             ELSE [invalid |-> FALSE,
                   config |-> mergeWithDefaults(
                                  TheOne(JSONParse(TheOne(candidates[i]))))]

loadConfig(candidates) == LoadFrom(candidates, 1)

\* isGlobPattern(str)
isGlobPattern(str) ==
    \E i \in DOMAIN str : str[i] \in {"*", "?", "[", "]", "{", "}", "!"}

EndsWith(s, suffix) ==
    Len(s) >= Len(suffix) /\ SubSeq(s, Len(s) - Len(suffix) + 1, Len(s)) = suffix

\* The files the glob library finds for a pattern, of which the model has
\* **/*.json only: every file whose name ends in .json.
GlobScan(pattern, paths) ==
    {p \in paths : pattern = <<"*", "*", "/", "*", ".", "j", "s", "o", "n">> /\ EndsWith(p, <<".", "j", "s", "o", "n">>)}

\* The elements of a set in some order: the order in which the glob
\* library yields its files.
RECURSIVE Yielded(_)
Yielded(S) ==
    IF S = {} THEN <<>>
    ELSE LET x == CHOOSE y \in S : TRUE IN <<x>> \o Yielded(S \ {x})

\* The results array after the loop over the patterns, from the i-th on.
RECURSIVE Pushed(_, _, _)
Pushed(patterns, i, paths) ==
    IF i > Len(patterns) THEN <<>>
    ELSE (IF isGlobPattern(patterns[i])
          THEN Yielded(GlobScan(patterns[i], paths))
          ELSE <<patterns[i]>>) \o Pushed(patterns, i + 1, paths)

DuplicatesKept(s) == s

\* [...new Set(results)]: the first occurrence of each element.
RECURSIVE Deduplicated(_)
Deduplicated(s) ==
    IF s = <<>> THEN <<>>
    ELSE LET front == Deduplicated(Front(s))
         IN  IF s[Len(s)] \in Range(front) THEN front
             ELSE Append(front, s[Len(s)])

\* Array.prototype.toSorted() of strings: ascending by UTF-16 code units.
RECURSIVE ToSorted(_)
ToSorted(s) ==
    IF s = <<>> THEN <<>>
    ELSE LET front == ToSorted(Front(s))
             x == s[Len(s)]
             before == SelectSeq(front, LAMBDA y : OrdinalCompare(y, x) <= 0)
             after == SelectSeq(front, LAMBDA y : OrdinalCompare(y, x) > 0)
         IN  before \o <<x>> \o after

\* expandGlob(patterns): [...new Set(results)].toSorted(), with no ignore
\* pattern and no .gitignore.
expandGlob(patterns, paths) ==
    ToSorted(Deduplicated(Pushed(patterns, 1, paths)))

\* const sortFrom = options.sortFrom ?? fileConfig.sortFrom
EffectiveSortFromFalsy(cliSortFrom, fileSortFrom) ==
    IF cliSortFrom = {} \/ cliSortFrom = {0} THEN fileSortFrom
    ELSE TheOne(cliSortFrom)

EffectiveSortFrom(cliSortFrom, fileSortFrom) == OrElse(cliSortFrom, fileSortFrom)

\* check mode: formatted !== originalFormatted
CheckDiffersFromContent(formatted, originalFormatted, fileContent) ==
    formatted # fileContent

CheckDiffers(formatted, originalFormatted, fileContent) ==
    formatted # originalFormatted

SkipsJsoncNever(isJsonc, force) == FALSE

\* if (isJsonc && !options.force)
SkipsJsonc(isJsonc, force) == isJsonc /\ ~force

WritesInCheckMode(options) == options.write

\* the write is reached: the check branch has not returned, and
\* options.write
Writes(options) == ~options.check /\ options.write

\* processFile(file, options) up to the write: the status so far, the
\* sortFrom sortKeysFromDepth was called with ({}: not called) and the
\* text handed to writeFile ({}: none).  fileContent is {} when the file
\* cannot be read.
processFile(fileContent, options, processSortFrom) ==
    LET result(status, engine, output) ==
            [status |-> status, engine |-> engine, output |-> output]
    IN  IF fileContent = {} THEN result("error", {}, {})
        ELSE LET text == TheOne(fileContent)
                 isJsonc == detectJsonc(text)
                 parsed == JSONParse(IF isJsonc THEN stripComments(text) ELSE text)
             IN  IF SkipsJsonc(isJsonc, options.force) THEN result("skipped", {}, {})
                 ELSE IF parsed = {} THEN result("error", {}, {})
                 ELSE LET sortedValue ==
                              sortKeysFromDepth(TheOne(parsed), processSortFrom, <<>>, 0)
                          formatted ==
                              formatJson(sortedValue, {options.indent}, {options.tabs})
                          originalFormatted ==
                              formatJson(TheOne(parsed), {options.indent}, {options.tabs})
                      IN  result(IF options.check
                                    /\ CheckDiffers(formatted, originalFormatted, text)
                                 THEN "changed" ELSE "success",
                                 {processSortFrom},
                                 IF Writes(options) THEN {formatted} ELSE {})

(***************************************************************************)
(* The inputs of the sort engine.                                          *)
(***************************************************************************)
KeyA == <<"a">>
KeyB == <<"B">>
Key2 == <<"2">>
Key10 == <<"1", "0">>
KeyZ == <<"z">>

Keys == {KeyA, KeyB, Key2, Key10}

\* undefined, two listed keys against their alphabetical order, a key no
\* document has together with an array-index key, and a key listed twice.
SortOrders ==
    {<<>>, <<KeyB, KeyA>>, <<KeyZ, KeyA, Key2>>, <<KeyA, KeyB, KeyA>>}

\* The key sequences of length m an object can have.
KeySeqs(m) == {ks \in [1..m -> Keys] : IsOwnKeyOrder(ks)}

\* The array and the objects whose member values are the sequence s.
ContainersOf(s) ==
    {MkArr(s)}
    \cup {MkObj([i \in DOMAIN s |-> [key |-> ks[i], val |-> s[i]]]) :
             ks \in KeySeqs(Len(s))}

\* The JSON values of exactly n nodes, and the sequences of values of n
\* nodes in all.
RECURSIVE ValuesOfSize(_, _)
RECURSIVE SeqsOfSize(_, _)
ValuesOfSize(n, leaves) ==
    IF n <= 0 THEN {}
    ELSE (IF n = 1 THEN leaves ELSE {})
         \cup UNION {ContainersOf(s) : s \in SeqsOfSize(n - 1, leaves)}
SeqsOfSize(n, leaves) ==
    IF n = 0 THEN {<<>>}
    ELSE UNION {{<<v>> \o s : v \in ValuesOfSize(k, leaves),
                               s \in SeqsOfSize(n - k, leaves)} : k \in 1..n}

\* value is a JSON value of at most max nodes over the leaves.
IsValueUpTo(value, max, leaves) ==
    \/ value \in leaves
    \/ \E n \in 0..(max - 1) :
          \E s \in SeqsOfSize(n, leaves) : value \in ContainersOf(s)

SortIdle ==
    /\ doc = Num1
    /\ sortFrom = 0
    /\ sortOrder = <<>>
    /\ sorted = Num1
    /\ resorted = Num1
    /\ sortPc = "idle"

SortInit ==
    /\ IsValueUpTo(doc, MaxNodes, {Num1})
    /\ sortFrom = 0
    /\ sortOrder = <<>>
    /\ sorted = doc
    /\ resorted = doc
    /\ sortPc = "input"

\* sorted = sortKeysFromDepth(parsed, {sortFrom, sortOrder})
SortDoc ==
    /\ sortPc = "input"
    /\ \E from \in 0..MaxSortFrom, order \in SortOrders :
          /\ sortFrom' = from
          /\ sortOrder' = order
          /\ sorted' = sortKeysFromDepth(doc, from, order, 0)
    /\ sortPc' = "sorted"
    /\ UNCHANGED <<doc, resorted, notSort>>

\* The engine applied to its own output, with the same options.
SortAgain ==
    /\ sortPc = "sorted"
    /\ resorted' = sortKeysFromDepth(sorted, sortFrom, sortOrder, 0)
    /\ sortPc' = "resorted"
    /\ UNCHANGED <<doc, sortFrom, sortOrder, sorted, notSort>>

(***************************************************************************)
(* The inputs of the formatter.                                            *)
(***************************************************************************)
\* The string a"b, whose quote JSON text escapes.
StrQuote == Str(<<"a", "\"", "b">>)

FormatIdle ==
    /\ fmtValue = Num1
    /\ fmtIndent = {}
    /\ fmtUseTabs = {}
    /\ fmtText = <<>>
    /\ fmtPc = "idle"

FormatInit ==
    /\ IsValueUpTo(fmtValue, MaxFormatNodes, {Null, Num1, StrQuote})
    /\ fmtIndent = {}
    /\ fmtUseTabs = {}
    /\ fmtText = <<>>
    /\ fmtPc = "input"

\* fmtText = formatJson(fmtValue, {indent, useTabs})
FormatValue ==
    /\ fmtPc = "input"
    /\ \E indentOpt \in {{}} \cup {{n} : n \in 1..MaxIndent},
          useTabsOpt \in {{}, {TRUE}, {FALSE}} :
          /\ fmtIndent' = indentOpt
          /\ fmtUseTabs' = useTabsOpt
          /\ fmtText' = formatJson(fmtValue, indentOpt, useTabsOpt)
    /\ fmtPc' = "formatted"
    /\ UNCHANGED <<fmtValue, notFormat>>

(***************************************************************************)
(* The inputs of the comment detector and stripper.                        *)
(***************************************************************************)
ContentChars == {Quote, Backslash, LineFeed, "/", "*", "x"}

Contents(max) == UNION {[1..n -> ContentChars] : n \in 0..max}

\* The texts that open with a quote and a backslash before a line feed,
\* followed by a text of at most max - 2 characters.
BrokenEscapeTexts(max) ==
    {<<Quote, Backslash, LineFeed>> \o t : t \in Contents(max - 2)}

CommentsIdle ==
    /\ content = <<>>
    /\ detected = FALSE
    /\ stripped = <<>>
    /\ cmtPc = "idle"

CommentsInit ==
    /\ content \in Contents(MaxLen) \cup BrokenEscapeTexts(MaxLen)
    /\ detected = FALSE
    /\ stripped = <<>>
    /\ cmtPc = "input"

\* const isJsonc = detectJsonc(content)
Detect ==
    /\ cmtPc = "input"
    /\ detected' = detectJsonc(content)
    /\ cmtPc' = "detected"
    /\ UNCHANGED <<content, stripped, notComments>>

\* stripComments(content)
Strip ==
    /\ cmtPc = "detected"
    /\ stripped' = stripComments(content)
    /\ cmtPc' = "stripped"
    /\ UNCHANGED <<content, detected, notComments>>

(***************************************************************************)
(* The inputs of the configuration resolver.                               *)
(***************************************************************************)
PackageJson == <<"p", "a", "c", "k", "a", "g", "e", ".", "j", "s", "o", "n">>
BarJson == <<"b", "a", "r", ".", "j", "s", "o", "n">>
FooBarJson == <<"f", "o", "o", "/", "b", "a", "r", ".", "j", "s", "o", "n">>
ReadmeMd == <<"R", "E", "A", "D", "M", "E", ".", "m", "d">>

StarJson == <<"*", ".", "j", "s", "o", "n">>
GlobstarJson == <<"*", "*", "/", "*", ".", "j", "s", "o", "n">>
PStar == <<"p", "*">>
StarN == <<"*", "n">>

Paths == {PackageJson, BarJson, FooBarJson, ReadmeMd}

Patterns == {PackageJson, StarJson, GlobstarJson, PStar, StarN}

\* A FileConfig the schema accepts: sortFrom and ignore, each optional.
FileConfigs ==
    [sortFrom : {{}, {0}}, ignore : {{}, {TRUE}}, sortOrder : {{}}]

FileEntries == [pattern : Patterns, config : FileConfigs]

\* The `files` of a configuration: entries with distinct patterns.
FilesObjects(max) ==
    UNION {{f \in [1..n -> FileEntries] :
               \A i, j \in 1..n : i # j => f[i].pattern # f[j].pattern} :
           n \in 0..max}

NoFileConfig ==
    [sortFrom |-> DefaultSortFrom, ignore |-> FALSE, sortOrder |-> {},
     matchedPattern |-> {}]

ConfigIdle ==
    /\ cfgSortFrom = {}
    /\ cfgFiles = <<>>
    /\ filePath = <<>>
    /\ fileConfig = NoFileConfig
    /\ cfgPc = "idle"

ConfigInit ==
    /\ cfgSortFrom \in {{}, {0}, {2}}
    /\ cfgFiles \in FilesObjects(MaxFiles)
    /\ filePath = <<>>
    /\ fileConfig = NoFileConfig
    /\ cfgPc = "loaded"

\* const fileConfig = getFileConfig(file, config)
GetFileConfig ==
    /\ cfgPc = "loaded"
    /\ \E path \in Paths :
          /\ filePath' = path
          /\ fileConfig' = getFileConfig(path, cfgSortFrom, cfgFiles)
    /\ cfgPc' = "resolved"
    /\ UNCHANGED <<cfgSortFrom, cfgFiles, notConfig>>

(***************************************************************************)
(* The inputs of the pattern matcher.                                      *)
(***************************************************************************)
PatternChars == {"a", ".", "/", "*"}

PathChars == {"a", ".", "/"}

TextsUpTo(chars, max) == UNION {[1..n -> chars] : n \in 0..max}

GlobIdle ==
    /\ globPattern = <<>>
    /\ globPath = <<>>
    /\ globMatched = FALSE
    /\ globPc = "idle"

\* Every short pattern against every short path, and the patterns and
\* paths of the configuration resolver.
GlobInit ==
    /\ \/ /\ globPattern \in TextsUpTo(PatternChars, MaxPatternLen)
          /\ globPath \in TextsUpTo(PathChars, MaxPathLen)
       \/ /\ globPattern \in Patterns
          /\ globPath \in Paths
    /\ globMatched = FALSE
    /\ globPc = "input"

\* if (matchesPattern(filePath, pattern))
MatchPattern ==
    /\ globPc = "input"
    /\ globMatched' = matchesPattern(globPath, globPattern)
    /\ globPc' = "matched"
    /\ UNCHANGED <<globPattern, globPath, notGlob>>

(***************************************************************************)
(* The inputs of a run of the command line.                                *)
(***************************************************************************)
ArgCheck == <<"-", "c">>
ArgWrite == <<"-", "w">>
ArgForce == <<"-", "f">>
ArgSortFrom == <<"-", "-", "s", "o", "r", "t", "-", "f", "r", "o", "m">>
ArgZero == <<"0">>
ArgMinusOne == <<"-", "1">>
ArgX == <<"x">>

\* x is not a number, and as a pattern names a file that does not exist.
ArgTokens == {ArgCheck, ArgWrite, ArgForce, ArgSortFrom, ArgZero, ArgMinusOne, ArgX}

\* Sorted and formatted as formatJson prints it with the default indent.
TextSorted == <<"{", "\n", " ", " ", "\"", "a", "\"", ":", " ", "1", ",", "\n", " ", " ", "\"", "b", "\"", ":", " ", "1", "\n", "}", "\n">>
\* The same value, keys in order, without white space.
TextCompact == <<"{", "\"", "a", "\"", ":", "1", ",", "\"", "b", "\"", ":", "1", "}">>
\* Keys out of order at depth 0, and nothing below.
TextUnsorted == <<"{", "\"", "b", "\"", ":", "1", ",", "\"", "a", "\"", ":", "1", "}">>
\* Keys out of order at depth 0 and at depth 1.
TextNested == <<"{", "\"", "b", "\"", ":", "{", "\"", "b", "\"", ":", "1", ",", "\"", "a", "\"", ":", "1", "}", ",", "\"", "a", "\"", ":", "1", "}">>
\* Keys out of order at depth 0, and a line comment.
TextJsonc == <<"{", "\"", "b", "\"", ":", "1", ",", "\"", "a", "\"", ":", "1", "}", "/", "/", "x">>
\* Not JSON.
TextBroken == <<"{">>

FileTexts ==
    {TextSorted, TextCompact, TextUnsorted, TextNested, TextJsonc, TextBroken}

\* A top-level sortFrom, an override with a sortFrom and one without.
ConfigOverrides == <<"{", "\"", "s", "o", "r", "t", "F", "r", "o", "m", "\"", ":", "2", ",", "\"", "f", "i", "l", "e", "s", "\"", ":", "{", "\"", "*", ".", "j", "s", "o", "n", "\"", ":", "{", "\"", "s", "o", "r", "t", "F", "r", "o", "m", "\"", ":", "0", "}", ",", "\"", "p", "a", "c", "k", "a", "g", "e", ".", "j", "s", "o", "n", "\"", ":", "{", "}", "}", "}">>
\* An override that marks bar.json as ignored.
ConfigIgnore == <<"{", "\"", "f", "i", "l", "e", "s", "\"", ":", "{", "\"", "b", "a", "r", ".", "j", "s", "o", "n", "\"", ":", "{", "\"", "i", "g", "n", "o", "r", "e", "\"", ":", "t", "r", "u", "e", "}", "}", "}">>
\* A top-level field the schema does not have.
ConfigUnknownField == <<"{", "\"", "x", "\"", ":", "1", "}">>
\* A sortFrom below the schema's minimum.
ConfigNegative == <<"{", "\"", "s", "o", "r", "t", "F", "r", "o", "m", "\"", ":", "-", "1", "}">>
\* An override with a sortOrder.
ConfigSortOrder == <<"{", "\"", "s", "o", "r", "t", "F", "r", "o", "m", "\"", ":", "0", ",", "\"", "f", "i", "l", "e", "s", "\"", ":", "{", "\"", "p", "a", "c", "k", "a", "g", "e", ".", "j", "s", "o", "n", "\"", ":", "{", "\"", "s", "o", "r", "t", "O", "r", "d", "e", "r", "\"", ":", "[", "\"", "b", "\"", "]", "}", "}", "}">>

ConfigTexts ==
    {ConfigOverrides, ConfigIgnore, ConfigUnknownField, ConfigNegative,
     ConfigSortOrder, TextBroken}

\* CONFIG_FILE_NAMES
ConfigFileNames ==
    <<<<".", "s", "o", "r", "t", "j", "s", "o", "n", "r", "c", ".", "j", "s", "o", "n">>, <<".", "s", "o", "r", "t", "j", "s", "o", "n", "r", "c">>, <<"s", "o", "r", "t", "j", "s", "o", "n", ".", "c", "o", "n", "f", "i", "g", ".", "j", "s", "o", "n">>>>

DiskPaths == {BarJson, PackageJson}

\* The candidate contents with n of the configuration files present.
CandidatesWith(n) ==
    {c \in [DOMAIN ConfigFileNames -> {{}} \cup {{t} : t \in ConfigTexts}] :
        Cardinality({i \in DOMAIN c : c[i] # {}}) = n}

\* The file systems with n files.
DisksWith(n) ==
    UNION {[P -> FileTexts] : P \in {Q \in SUBSET DiskPaths : Cardinality(Q) = n}}

NoOptions == DefaultOptions

RunIdle ==
    /\ argv = <<>>
    /\ rcFiles = <<>>
    /\ disk = <<>>
    /\ written = <<>>
    /\ cliOptions = NoOptions
    /\ config = DefaultConfig
    /\ found = <<>>
    /\ nextFile = 0
    /\ results = <<>>
    /\ exitCode = {}
    /\ runPc = "idle"

\* A command line, the configuration files and the file system, of at
\* most MaxRun arguments and files together.
RunInit ==
    /\ \E a \in 0..MaxRun :
          \E c \in 0..(MaxRun - a) :
             \E f \in 0..(MaxRun - a - c) :
                /\ rcFiles \in CandidatesWith(c)
                /\ disk \in DisksWith(f)
                /\ argv \in [1..a -> ArgTokens]
    /\ written = <<>>
    /\ cliOptions = NoOptions
    /\ config = DefaultConfig
    /\ found = <<>>
    /\ nextFile = 0
    /\ results = <<>>
    /\ exitCode = {}
    /\ runPc = "start"

\* const { options, files: cliPatterns } = parseArgs(args)
ParseArgs ==
    /\ runPc = "start"
    /\ cliOptions' = parseArgs(argv)
    /\ runPc' = "args"
    /\ UNCHANGED <<argv, rcFiles, disk, written, config, found, nextFile,
                   results, exitCode, notRun>>

\* const config = await loadConfig(); a ConfigValidationError rejects
\* main, whose catch exits with 1.
LoadConfig ==
    /\ runPc = "args"
    /\ \E loaded \in {loadConfig(rcFiles)} :
           IF loaded.invalid
           THEN /\ exitCode' = {1}
                /\ runPc' = "exited"
                /\ UNCHANGED config
           ELSE /\ config' = loaded.config
                /\ runPc' = "loaded"
                /\ UNCHANGED exitCode
    /\ UNCHANGED <<argv, rcFiles, disk, written, cliOptions, found, nextFile,
                   results, notRun>>

\* const files = await expandGlob(patterns); no file: exit 1.
ExpandGlob ==
    /\ runPc = "loaded"
    /\ \E files \in {expandGlob(IF Len(cliOptions.files) > 0
                                   THEN cliOptions.files ELSE config.include,
                                   DOMAIN disk)} :
           /\ found' = files
           /\ IF Len(files) = 0
              THEN exitCode' = {1} /\ runPc' = "exited" /\ UNCHANGED nextFile
              ELSE nextFile' = 1 /\ runPc' = "loop" /\ UNCHANGED exitCode
    /\ UNCHANGED <<argv, rcFiles, disk, written, cliOptions, config, results,
                   notRun>>

\* The loop body up to the call of processFile: the file, its resolved
\* configuration and the sortFrom of processOptions.
CurrentFile == found[nextFile]

CurrentConfig == getFileConfig(CurrentFile, config.sortFrom, config.files)

CurrentSortFrom(resolved) ==
    EffectiveSortFrom(cliOptions.sortFrom, resolved.sortFrom)

\* processFile on the current file, up to its write.
CurrentResult(resolved) ==
    processFile(IF CurrentFile \in DOMAIN disk THEN {disk[CurrentFile]} ELSE {},
                cliOptions, CurrentSortFrom(resolved))

Recorded(resolved, result, status) ==
    [file |-> CurrentFile, status |-> status,
     sortFrom |-> CurrentSortFrom(resolved), engine |-> result.engine]

\* if (fileConfig.ignore) continue
SkipIgnored ==
    /\ runPc = "loop"
    /\ nextFile <= Len(found)
    /\ CurrentConfig.ignore
    /\ nextFile' = nextFile + 1
    /\ UNCHANGED <<argv, rcFiles, disk, written, cliOptions, config, found,
                   results, exitCode, runPc, notRun>>

\* const result = await processFile(file, processOptions);
\* results.push(result) -- with writeFile, when reached, succeeding.
ProcessFile ==
    /\ runPc = "loop"
    /\ nextFile <= Len(found)
    /\ \E resolved \in {CurrentConfig} :
          /\ ~resolved.ignore
          /\ \E result \in {CurrentResult(resolved)} :
                /\ results' =
                       Append(results, Recorded(resolved, result, result.status))
                /\ written' =
                       IF result.output = {} THEN written
                       ELSE Append(written, [file |-> CurrentFile,
                                             text |-> TheOne(result.output)])
    /\ nextFile' = nextFile + 1
    /\ UNCHANGED <<argv, rcFiles, disk, cliOptions, config, found, exitCode,
                   runPc, notRun>>

\* The same with writeFile throwing: the outer catch makes it an error.
WriteFails ==
    /\ runPc = "loop"
    /\ nextFile <= Len(found)
    /\ Writes(cliOptions)
    /\ \E resolved \in {CurrentConfig} :
          /\ ~resolved.ignore
          /\ \E result \in {CurrentResult(resolved)} :
                /\ result.output # {}
                /\ results' = Append(results, Recorded(resolved, result, "error"))
    /\ nextFile' = nextFile + 1
    /\ UNCHANGED <<argv, rcFiles, disk, written, cliOptions, config, found,
                   exitCode, runPc, notRun>>

ExitCodeOfErrorsOnly(rs) ==
    IF \E i \in DOMAIN rs : rs[i].status = "error" THEN 1 ELSE 0

\* if (errorCount > 0 || changedCount > 0) process.exit(1)
ExitCodeOf(rs) ==
    IF \E i \in DOMAIN rs : rs[i].status \in {"error", "changed"} THEN 1 ELSE 0

\* The end of main.
Exit ==
    /\ runPc = "loop"
    /\ nextFile > Len(found)
    /\ exitCode' = {ExitCodeOf(results)}
    /\ runPc' = "exited"
    /\ UNCHANGED <<argv, rcFiles, disk, written, cliOptions, config, found,
                   nextFile, results, notRun>>

(***************************************************************************)
(* The specifications: one per component, the other components idle.       *)
(***************************************************************************)
InitSort == SortInit /\ FormatIdle /\ CommentsIdle /\ ConfigIdle /\ GlobIdle /\ RunIdle

NextSort == SortDoc \/ SortAgain

SpecSort == InitSort /\ [][NextSort]_vars

InitFormat == FormatInit /\ SortIdle /\ CommentsIdle /\ ConfigIdle /\ GlobIdle /\ RunIdle

NextFormat == FormatValue

SpecFormat == InitFormat /\ [][NextFormat]_vars

InitComments == CommentsInit /\ SortIdle /\ FormatIdle /\ ConfigIdle /\ GlobIdle /\ RunIdle

NextComments == Detect \/ Strip

SpecComments == InitComments /\ [][NextComments]_vars

InitConfig == ConfigInit /\ SortIdle /\ FormatIdle /\ CommentsIdle /\ GlobIdle /\ RunIdle

NextConfig == GetFileConfig

SpecConfig == InitConfig /\ [][NextConfig]_vars

InitMatch ==
    GlobInit /\ SortIdle /\ FormatIdle /\ CommentsIdle /\ ConfigIdle /\ RunIdle

NextMatch == MatchPattern

SpecMatch == InitMatch /\ [][NextMatch]_vars

Init ==
    RunInit /\ SortIdle /\ FormatIdle /\ CommentsIdle /\ ConfigIdle /\ GlobIdle

Next ==
    \/ ParseArgs
    \/ LoadConfig
    \/ ExpandGlob
    \/ SkipIgnored
    \/ ProcessFile
    \/ WriteFails
    \/ Exit

Spec == Init /\ [][Next]_vars

(***************************************************************************)
(* Properties of the sort engine (checked under SpecSort).                 *)
(***************************************************************************)
IsObj(value) == value.kind = "obj"

IsArr(value) == value.kind = "arr"

Pairwise(keys, Before(_, _)) ==
    \A i, j \in DOMAIN keys : i < j => Before(keys[i], keys[j])

LastPosition(k, order) ==
    CHOOSE i \in DOMAIN order :
        order[i] = k /\ \A j \in (i + 1)..Len(order) : order[j] # k

FirstPosition(k, order) ==
    CHOOSE i \in DOMAIN order : order[i] = k /\ \A j \in 1..(i - 1) : order[j] # k

\* The place of key a before key b in a mapping the engine has reordered
\* with the custom order `order` (<<>>: none): array-index keys first by
\* number, then the listed keys by their last place in the order, then the
\* other keys by localeCompare.
EngineBefore(a, b, order) ==
    IF IsArrayIndex(a) \/ IsArrayIndex(b)
    THEN IsArrayIndex(a) /\ (IsArrayIndex(b) => IndexValue(a) < IndexValue(b))
    ELSE IF a \in Range(order) \/ b \in Range(order)
    THEN /\ a \in Range(order)
         /\ b \in Range(order) => LastPosition(a, order) < LastPosition(b, order)
    ELSE LocaleCompare(a, b) < 0

\* C1: sortKeysFromDepth is idempotent: sorting the sorted value again, with
\* the same sortFrom and sortOrder, gives the same value (structure, values
\* and key order at every mapping).
C1_Idempotent == sortPc = "resorted" => resorted = sorted

C1_Witness ==
    /\ sortPc = "resorted"
    /\ sorted # doc
    /\ sortOrder # <<>>
    /\ IsObj(doc) /\ Len(doc.items) >= 2
    /\ resorted = sorted

\* The deepest depth a mapping of the value lies at (-1: no mapping).
RECURSIVE MaxMappingDepth(_, _)
MaxMappingDepth(value, d) ==
    LET Max(S) == CHOOSE x \in S : \A y \in S : y <= x
    IN  IF IsArr(value)
        THEN Max({-1} \cup {MaxMappingDepth(value.items[i].val, d) :
                               i \in DOMAIN value.items})
        ELSE IF IsObj(value)
        THEN Max({d} \cup {MaxMappingDepth(value.items[i].val, d + 1) :
                              i \in DOMAIN value.items})
        ELSE -1

\* out is in with: every mapping at a depth d >= sortFrom in the engine's
\* order, every mapping at a depth d < sortFrom in its input order, and
\* the values of a mapping at depth d compared at depth d + 1.
RECURSIVE DepthGated(_, _, _, _)
DepthGated(in, out, d, isRoot) ==
    IF IsArr(in)
    THEN /\ IsArr(out)
         /\ Len(out.items) = Len(in.items)
         /\ \A i \in DOMAIN in.items :
               DepthGated(in.items[i].val, out.items[i].val, d, FALSE)
    ELSE IF IsObj(in)
    THEN /\ IsObj(out)
         /\ Range(KeysOf(out)) = Range(KeysOf(in))
         /\ Len(out.items) = Len(in.items)
         /\ IF d >= sortFrom
            THEN Pairwise(KeysOf(out),
                          LAMBDA a, b : EngineBefore(a, b,
                              IF d = 0 /\ isRoot THEN sortOrder ELSE <<>>))
            ELSE KeysOf(out) = KeysOf(in)
         /\ \A k \in Range(KeysOf(in)) :
               DepthGated(Get(in, k), Get(out, k), d + 1, FALSE)
    ELSE out = in

\* C2: a mapping reached at depth d is reordered iff d >= sortFrom and
\* keeps its input key order when d < sortFrom, its values being processed
\* at depth d + 1 either way; so a sortFrom above the deepest mapping
\* changes nothing, and sortFrom = 1 keeps the root's key order while
\* every child mapping is sorted.
C2_DepthGating ==
    sortPc = "sorted" =>
        /\ DepthGated(doc, sorted, 0, TRUE)
        /\ sortFrom > MaxMappingDepth(doc, 0) => sorted = doc
        /\ (sortFrom = 1 /\ IsObj(doc)) =>
              /\ KeysOf(sorted) = KeysOf(doc)
              /\ \A i \in DOMAIN sorted.items :
                    IsObj(sorted.items[i].val) =>
                        Pairwise(KeysOf(sorted.items[i].val),
                                 LAMBDA a, b : EngineBefore(a, b, <<>>))

C2_Witness ==
    /\ sortPc = "sorted"
    /\ sortFrom = 1
    /\ doc = MkObj(<<[key |-> KeyB,
                      val |-> MkObj(<<[key |-> KeyB, val |-> Num1],
                                      [key |-> KeyA, val |-> Num1]>>)]>>)
    /\ sorted = MkObj(<<[key |-> KeyB,
                         val |-> MkObj(<<[key |-> KeyA, val |-> Num1],
                                         [key |-> KeyB, val |-> Num1]>>)]>>)

\* Every array of `in`, reached at depth d, has in `out` an array of the
\* same length whose i-th element is in's i-th element processed at depth d.
RECURSIVE ArraysPreserved(_, _, _)
ArraysPreserved(in, out, d) ==
    IF IsArr(in)
    THEN /\ IsArr(out)
         /\ Len(out.items) = Len(in.items)
         /\ \A i \in DOMAIN in.items :
               /\ out.items[i].val =
                      sortKeysFromDepth(in.items[i].val, sortFrom, <<>>, d)
               /\ ArraysPreserved(in.items[i].val, out.items[i].val, d)
    ELSE IF IsObj(in)
    THEN /\ IsObj(out)
         /\ Range(KeysOf(out)) = Range(KeysOf(in))
         /\ \A k \in Range(KeysOf(in)) :
               ArraysPreserved(Get(in, k), Get(out, k), d + 1)
    ELSE TRUE

\* C3: arrays keep their length and element order and add no depth: the
\* i-th element of the output array is the i-th input element processed at
\* the array's own depth d (not d + 1), for every sortFrom.
C3_ArraysTransparent ==
    sortPc = "sorted" =>
        /\ ArraysPreserved(doc, sorted, 0)
        /\ (IsArr(doc) /\ sortFrom >= 1) =>
              \A i \in DOMAIN doc.items :
                  IsObj(doc.items[i].val) =>
                      KeysOf(sorted.items[i].val) = KeysOf(doc.items[i].val)

C3_Witness ==
    /\ sortPc = "sorted"
    /\ sortFrom = 1
    /\ doc = MkArr(<<MkObj(<<[key |-> KeyB, val |-> Num1],
                             [key |-> KeyA, val |-> Num1]>>)>>)
    /\ sorted = doc

\* The mappings of `out` that the engine reordered without the custom
\* order all have their keys pairwise in the order `mode` names.
RECURSIVE DefaultLevelsOrdered(_, _, _, _)
DefaultLevelsOrdered(out, d, isRoot, mode) ==
    IF IsArr(out)
    THEN \A i \in DOMAIN out.items :
             DefaultLevelsOrdered(out.items[i].val, d, FALSE, mode)
    ELSE IF IsObj(out)
    THEN /\ (d >= sortFrom /\ ~(d = 0 /\ isRoot /\ sortOrder # <<>>)) =>
                IF mode = "ordinal"
                THEN Pairwise(KeysOf(out), LAMBDA a, b : OrdinalCompare(a, b) < 0)
                ELSE Pairwise(KeysOf(out), LAMBDA a, b : EngineBefore(a, b, <<>>))
         /\ \A i \in DOMAIN out.items :
               DefaultLevelsOrdered(out.items[i].val, d + 1, FALSE, mode)
    ELSE TRUE

\* C4 as stated: at every reordered level where the custom comparator is
\* not used, the output keys are in ascending ordinal (code-point) order,
\* so that "B" comes before "a".
C4_OrdinalOrder ==
    sortPc = "sorted" => DefaultLevelsOrdered(sorted, 0, TRUE, "ordinal")

\* C4 as amended: at every such level the output keys are the array-index
\* keys in ascending numeric order followed by the other keys in ascending
\* localeCompare (collation) order, under which "a" comes before "B".
C4_LocaleOrder ==
    sortPc = "sorted" => DefaultLevelsOrdered(sorted, 0, TRUE, "locale")

C4_Witness ==
    /\ sortPc = "sorted"
    /\ sortFrom = 0
    /\ sortOrder = <<>>
    /\ doc = MkObj(<<[key |-> KeyB, val |-> Num1], [key |-> KeyA, val |-> Num1]>>)
    /\ KeysOf(sorted) = <<KeyA, KeyB>>

\* C5 as stated: the keys listed in sortOrder first, in declared order,
\* then all remaining keys in ordinal order.
ClaimedBefore(a, b, order) ==
    IF a \in Range(order) \/ b \in Range(order)
    THEN /\ a \in Range(order)
         /\ b \in Range(order) => FirstPosition(a, order) < FirstPosition(b, order)
    ELSE OrdinalCompare(a, b) < 0

CustomOrderCase ==
    sortPc # "input" /\ IsObj(doc) /\ sortFrom = 0 /\ sortOrder # <<>>

RECURSIVE LevelsOrdered(_, _, _, _)
LevelsOrdered(out, d, isRoot, mode) ==
    IF IsArr(out)
    THEN \A i \in DOMAIN out.items :
             LevelsOrdered(out.items[i].val, d, FALSE, mode)
    ELSE IF IsObj(out)
    THEN /\ Pairwise(KeysOf(out),
                     LAMBDA a, b :
                         EngineBefore(a, b,
                                      IF d = 0 /\ (isRoot \/ mode = "depth0")
                                      THEN sortOrder ELSE <<>>))
         /\ \A i \in DOMAIN out.items :
               LevelsOrdered(out.items[i].val, d + 1, FALSE, mode)
    ELSE TRUE

CustomOrderGiven == sortPc = "sorted" /\ sortFrom = 0 /\ sortOrder # <<>>

\* C22 as stated: with sortFrom = 0 and a non-empty sortOrder every mapping
\* at depth 0, the root mapping and each mapping that is an element of a
\* root-level array however nested, has its keys in the custom order, and
\* the mappings at depth >= 1 are in the default order.
C22_CustomOrderAtDepthZero ==
    CustomOrderGiven => LevelsOrdered(sorted, 0, TRUE, "depth0")

\* C22 as amended: only a root mapping has its keys in the custom order;
\* the mappings that are elements of a root-level array, though at depth 0,
\* and the mappings at depth >= 1 are in the default order.
C22_CustomOrderAtRootOnly ==
    CustomOrderGiven =>
        LevelsOrdered(sorted, 0, TRUE, "root")

\* [{"B": 1, "a": 1}] with the sortOrder ["B", "a"] and sortFrom 0: the
\* element's keys come out as a, B.
C22_Witness ==
    /\ CustomOrderGiven
    /\ sortOrder = <<KeyB, KeyA>>
    /\ doc = MkArr(<<MkObj(<<[key |-> KeyB, val |-> Num1],
                             [key |-> KeyA, val |-> Num1]>>)>>)
    /\ KeysOf(sorted.items[1].val) = <<KeyA, KeyB>>

\* out holds the data of in, reached at depth d: an array has the same
\* length and its elements in the same places, a mapping the same keys,
\* each once and bound to the processed form of the same child, and a
\* primitive is the same.
RECURSIVE SameData(_, _, _)
SameData(in, out, d) ==
    IF IsArr(in)
    THEN /\ IsArr(out)
         /\ Len(out.items) = Len(in.items)
         /\ \A i \in DOMAIN in.items :
               SameData(in.items[i].val, out.items[i].val, d)
    ELSE IF IsObj(in)
    THEN /\ IsObj(out)
         /\ Len(out.items) = Len(in.items)
         /\ Range(KeysOf(out)) = Range(KeysOf(in))
         /\ Cardinality(Range(KeysOf(out))) = Len(out.items)
         /\ \A k \in Range(KeysOf(in)) :
               /\ Get(out, k) =
                      sortKeysFromDepth(Get(in, k), sortFrom, <<>>, d + 1)
               /\ SameData(Get(in, k), Get(out, k), d + 1)
    ELSE out = in

\* C24: for every value, sortFrom and sortOrder (with entries that are no
\* key of the value, and entries listed twice) the result has the shape
\* and the data of the input: the same keys in every mapping, each bound
\* to the processed form of the same child, arrays of the same length and
\* element order, the same primitives; only the order of keys can differ.
C24_DataPreserved ==
    sortPc = "sorted" => SameData(doc, sorted, 0)

\* Under an order that lists a key the mapping does not have and misses
\* one it has, the reordered mapping still binds each key to its child.
C24_Witness ==
    /\ sortPc = "sorted"
    /\ sortFrom = 0
    /\ sortOrder = <<KeyZ, KeyA, Key2>>
    /\ doc = MkObj(<<[key |-> KeyB, val |-> MkArr(<<>>)],
                     [key |-> KeyA, val |-> Num1]>>)
    /\ sorted = MkObj(<<[key |-> KeyA, val |-> Num1],
                        [key |-> KeyB, val |-> MkArr(<<>>)]>>)
(***************************************************************************)
(* Properties of the formatter (checked under SpecFormat).                 *)
(***************************************************************************)
\* `unit` repeated `level` times.
RECURSIVE Indentation(_, _)
Indentation(level, unit) ==
    IF level = 0 THEN <<>> ELSE unit \o Indentation(level - 1, unit)

\* The lines of the pretty-printed JSON text of a value at nesting level
\* `level`: `lead` starts its first line and `trail` ends its last.
RECURSIVE PrettyLines(_, _, _, _, _)
PrettyLines(value, unit, level, lead, trail) ==
    LET n == Len(value.items)
        open == IF value.kind = "obj" THEN <<"{">> ELSE <<"[">>
        close == IF value.kind = "obj" THEN <<"}">> ELSE <<"]">>
        name(i) == IF value.kind = "obj"
                   THEN QuoteJSONString(value.items[i].key) \o <<":", " ">>
                   ELSE <<>>
    IN  IF value.kind \in {"obj", "arr"} /\ n > 0
        THEN <<lead \o open>>
             \o Concat([i \in 1..n |->
                    PrettyLines(value.items[i].val, unit, level + 1,
                                Indentation(level + 1, unit) \o name(i),
                                IF i < n THEN <<",">> ELSE <<>>)])
             \o <<Indentation(level, unit) \o close \o trail>>
        ELSE IF value.kind \in {"obj", "arr"} THEN <<lead \o open \o close \o trail>>
        ELSE IF value.kind = "str" THEN <<lead \o QuoteJSONString(value.lit) \o trail>>
        ELSE <<lead \o value.lit \o trail>>

\* The pretty-printed text, one line feed after the last line.
PrettyText(value, unit) ==
    Join(PrettyLines(value, unit, 0, <<>>, <<>>), <<"\n">>) \o <<"\n">>

\* C6: formatJson(value, {indent, useTabs}) is the pretty-printed JSON text
\* of value with every nesting level indented by exactly `indent` spaces
\* (2 by default), by one tab when useTabs is true, and exactly one
\* trailing line feed, for every positive integer indent.
C6_FormatIndent ==
    fmtPc = "formatted" =>
        fmtText = PrettyText(fmtValue,
                      IF fmtUseTabs = {TRUE} THEN <<"\t">>
                      ELSE Spaces(IF fmtIndent = {} THEN 2 ELSE TheOne(fmtIndent)))

\* The same for the indents JSON.stringify does not cut (at most 10).
C6_FormatIndentUpTo10 ==
    (fmtPc = "formatted" /\ (fmtIndent = {} \/ TheOne(fmtIndent) <= 10)) =>
        fmtText = PrettyText(fmtValue,
                      IF fmtUseTabs = {TRUE} THEN <<"\t">>
                      ELSE Spaces(IF fmtIndent = {} THEN 2 ELSE TheOne(fmtIndent)))

(***************************************************************************)
(* Properties of the comment detector and stripper (under SpecComments).   *)
(***************************************************************************)
\* The number of backslashes that directly precede position i, counted
\* back no further than position p + 1.
BackslashRun(c, p, i) ==
    LET runs == {k \in 0..(i - 1 - p) : \A j \in 1..k : c[i - j] = Backslash}
    IN  CHOOSE k \in runs : \A m \in runs : m <= k

\* Positions p..q hold a double-quoted string literal: a quote, then
\* characters none of which is an unescaped quote, then an unescaped quote;
\* a character is escaped when an odd number of backslashes precede it.
\* With anyEscape a backslash escapes every character; without it, every
\* character but a line terminator.
IsLiteral(c, p, q, anyEscape) ==
    /\ p < q
    /\ c[p] = Quote
    /\ c[q] = Quote
    /\ BackslashRun(c, p, q) % 2 = 0
    /\ \A i \in (p + 1)..(q - 1) :
          /\ c[i] = Quote => BackslashRun(c, p, i) % 2 = 1
          /\ (~anyEscape /\ IsLineTerminator(c[i])) => BackslashRun(c, p, i) % 2 = 0

Literals(c, anyEscape) ==
    {s \in (DOMAIN c) \X (DOMAIN c) : IsLiteral(c, s[1], s[2], anyEscape)}

\* The literals a left-to-right replacement of every literal takes: a
\* literal is taken unless its opening quote lies in a taken literal that
\* starts before it.
ReplacedLiterals(c, anyEscape) ==
    LET all == Literals(c, anyEscape)
    IN  CHOOSE S \in SUBSET all :
            \A s \in all :
                s \in S <=> ~\E t \in S : t[1] < s[1] /\ s[1] <= t[2]

\* What is left of the text once every string literal is replaced by ""
\* holds // or /*.
CommentOutsideLiterals(c, anyEscape) ==
    LET S == ReplacedLiterals(c, anyEscape)
        covered(i) == \E s \in S : s[1] <= i /\ i <= s[2]
    IN  \E i \in 1..(Len(c) - 1) :
            /\ c[i] = "/"
            /\ c[i + 1] \in {"/", "*"}
            /\ ~covered(i)
            /\ ~covered(i + 1)

\* C7 as stated: detectJsonc(content) is true iff the text left once every
\* double-quoted string literal, with every backslash-escaped character in
\* it, is replaced by "" holds // or /*.
C7_DetectAnyEscape ==
    cmtPc # "input" => (detected <=> CommentOutsideLiterals(content, TRUE))

\* C7 as amended: the same, a string literal being one in which no
\* backslash is followed by a line terminator (a quote that opens no such
\* literal is left in the text, with all that follows it).
C7_Detect ==
    cmtPc # "input" => (detected <=> CommentOutsideLiterals(content, FALSE))

\* "//" only inside a string literal that holds an escaped quote.
C7_Witness ==
    /\ cmtPc = "detected"
    /\ content = <<Quote, Backslash, Quote, "/", "/", Quote>>
    /\ ~detected

\* The reference scanner of the comment syntax: the characters kept from
\* position i on, the scanner being in `state` there.
RECURSIVE KeptFrom(_, _, _)
KeptFrom(c, i, state) ==
    IF i > Len(c) THEN <<>>
    ELSE LET ch == c[i]
             two == IF i < Len(c) THEN <<c[i], c[i + 1]>> ELSE <<c[i]>>
         IN  CASE state = "normal" ->
                    IF ch = Quote THEN <<ch>> \o KeptFrom(c, i + 1, "string")
                    ELSE IF two = <<"/", "/">> THEN KeptFrom(c, i + 2, "line")
                    ELSE IF two = <<"/", "*">> THEN KeptFrom(c, i + 2, "block")
                    ELSE <<ch>> \o KeptFrom(c, i + 1, "normal")
               [] state = "string" ->
                    <<ch>> \o KeptFrom(c, i + 1,
                                 IF ch = Backslash THEN "escaped"
                                 ELSE IF ch = Quote THEN "normal" ELSE "string")
               [] state = "escaped" -> <<ch>> \o KeptFrom(c, i + 1, "string")
               [] state = "line" ->
                    IF ch = LineFeed THEN <<ch>> \o KeptFrom(c, i + 1, "normal")
                    ELSE KeptFrom(c, i + 1, "line")
               [] state = "block" ->
                    IF two = <<"*", "/">> THEN KeptFrom(c, i + 2, "normal")
                    ELSE KeptFrom(c, i + 1, "block")

\* The state the reference scanner ends in.
RECURSIVE FinalState(_, _, _)
FinalState(c, i, state) ==
    IF i > Len(c) THEN state
    ELSE LET ch == c[i]
             two == IF i < Len(c) THEN <<c[i], c[i + 1]>> ELSE <<c[i]>>
         IN  CASE state = "normal" ->
                    IF ch = Quote THEN FinalState(c, i + 1, "string")
                    ELSE IF two = <<"/", "/">> THEN FinalState(c, i + 2, "line")
                    ELSE IF two = <<"/", "*">> THEN FinalState(c, i + 2, "block")
                    ELSE FinalState(c, i + 1, "normal")
               [] state = "string" ->
                    FinalState(c, i + 1,
                               IF ch = Backslash THEN "escaped"
                               ELSE IF ch = Quote THEN "normal" ELSE "string")
               [] state = "escaped" -> FinalState(c, i + 1, "string")
               [] state = "line" ->
                    FinalState(c, i + 1, IF ch = LineFeed THEN "normal" ELSE "line")
               [] state = "block" ->
                    IF two = <<"*", "/">> THEN FinalState(c, i + 2, "normal")
                    ELSE FinalState(c, i + 1, "block")

Unterminated(c) == FinalState(c, 1, "normal") = "block"

\* C8: when every block comment is terminated, stripComments returns the
\* text without its comments and nothing else changed: a line comment goes
\* up to, not including, its line feed; a block comment goes with its */;
\* every character of a string literal stays.
C8_StripTerminated ==
    (cmtPc = "stripped" /\ ~Unterminated(content)) =>
        stripped = KeptFrom(content, 1, "normal")

C8_Witness ==
    /\ cmtPc = "stripped"
    /\ content = <<"/", "/", "x", LineFeed, "x">>
    /\ stripped = <<LineFeed, "x">>

\* C9: an unterminated block comment consumes to the end of the input: no
\* character at or after its /* is in the output.
C9_UnterminatedBlock ==
    (cmtPc = "stripped" /\ Unterminated(content)) =>
        stripped = KeptFrom(content, 1, "normal")


\* C25 as stated: for every text, with unterminated strings and stray
\* backslashes too, if detectJsonc is false then stripComments returns the
\* text unchanged.
C25_StripIsIdentityWhenUndetected ==
    (cmtPc = "stripped" /\ ~detected) => stripped = content

\* A backslash stands right before a line terminator.
HasBrokenEscape(c) ==
    \E i \in 1..(Len(c) - 1) : c[i] = Backslash /\ IsLineTerminator(c[i + 1])

\* C25 as amended: for every text in which no backslash stands right
\* before a line terminator, with unterminated strings and other stray
\* backslashes too, if detectJsonc is false then stripComments returns
\* the text unchanged.
C25_StripIsIdentityWithoutBrokenEscape ==
    (cmtPc = "stripped" /\ ~detected /\ ~HasBrokenEscape(content))
        => stripped = content

\* "//" after an escaped quote inside a string: not detected, and the text
\* comes back as it is.
C25_Witness ==
    /\ cmtPc = "stripped"
    /\ content = <<Quote, Backslash, Quote, "/", "/", Quote>>
    /\ ~detected
    /\ stripped = content
(***************************************************************************)
(* Properties of the configuration resolver (under SpecConfig).            *)
(***************************************************************************)
Matching == {i \in DOMAIN cfgFiles : matchesPattern(filePath, cfgFiles[i].pattern)}

Score(i) == getPatternSpecificity(cfgFiles[i].pattern)

\* The entry that beats every other matching entry: a higher score, or the
\* same score and declared earlier.
Winner ==
    CHOOSE i \in Matching :
        \A j \in Matching \ {i} :
            Score(i) > Score(j) \/ (Score(i) = Score(j) /\ i < j)

BaseSortFrom == IF cfgSortFrom = {} THEN 1 ELSE TheOne(cfgSortFrom)

\* C10: getFileConfig applies exactly one override: of the matching
\* patterns the one with the highest specificity score, the first declared
\* among equal scores; sortFrom is the override's, else the
\* configuration's, else 1; ignore is the override's, else false;
\* matchedPattern is the winning pattern; with no match the base values
\* come back without a matchedPattern.  A literal pattern equal to the path
\* wins over *.json in either declaration order.
C10_MostSpecificWins ==
    cfgPc = "resolved" =>
        /\ Matching = {} =>
              fileConfig = [sortFrom |-> BaseSortFrom, ignore |-> FALSE,
                            sortOrder |-> {}, matchedPattern |-> {}]
        /\ Matching # {} =>
              LET w == cfgFiles[Winner]
              IN  /\ \E i \in Matching :
                        \A j \in Matching \ {i} :
                            Score(i) > Score(j) \/ (Score(i) = Score(j) /\ i < j)
                  /\ fileConfig.matchedPattern = {w.pattern}
                  /\ fileConfig.sortFrom =
                        (IF w.config.sortFrom = {} THEN BaseSortFrom
                         ELSE TheOne(w.config.sortFrom))
                  /\ fileConfig.ignore =
                        (IF w.config.ignore = {} THEN FALSE
                         ELSE TheOne(w.config.ignore))
        /\ (/\ filePath = PackageJson
            /\ \E i, j \in DOMAIN cfgFiles :
                  cfgFiles[i].pattern = PackageJson /\ cfgFiles[j].pattern = StarJson)
           => fileConfig.matchedPattern = {PackageJson}

\* *.json is declared before package.json and the literal still wins, its
\* sortFrom 0 taken over the configuration's 2.
C10_Witness ==
    /\ cfgPc = "resolved"
    /\ filePath = PackageJson
    /\ cfgSortFrom = {2}
    /\ Len(cfgFiles) = 2
    /\ cfgFiles[1].pattern = StarJson
    /\ cfgFiles[1].config.sortFrom = {}
    /\ cfgFiles[2].pattern = PackageJson
    /\ cfgFiles[2].config.sortFrom = {0}
    /\ fileConfig.matchedPattern = {PackageJson}
    /\ fileConfig.sortFrom = 0

\* Two matching patterns of the same score: the first declared is applied.
C10_TieWitness ==
    /\ cfgPc = "resolved"
    /\ filePath = PackageJson
    /\ Len(cfgFiles) = 2
    /\ cfgFiles[1].pattern = StarN
    /\ cfgFiles[2].pattern = PStar
    /\ fileConfig.matchedPattern = {StarN}


\* C23: whenever a pattern without `**` and a pattern with `**` both match
\* the path, the one without has the strictly higher score and the one
\* with `**` is not the override applied (*.json against **/*.json for
\* bar.json).
C23_NonGlobstarOutranksGlobstar ==
    cfgPc = "resolved" =>
        \A i, j \in Matching :
            (/\ CountDoubleStars(cfgFiles[i].pattern) = 0
             /\ CountDoubleStars(cfgFiles[j].pattern) > 0)
                => /\ Score(i) > Score(j)
                   /\ fileConfig.matchedPattern # {cfgFiles[j].pattern}
(***************************************************************************)
(* Properties of the pattern matcher (under SpecMatch).                    *)
(***************************************************************************)
\* The pattern p matches the whole of the text s: `**` is any run of
\* characters, `*` a run without "/", every other character (the dot too)
\* itself; a `**/` at the start of the pattern may also match nothing.
RECURSIVE GlobMatches(_, _, _)
GlobMatches(p, s, leading) ==
    LET rest(k) == SubSeq(s, k + 1, Len(s))
    IN  IF p = <<>> THEN s = <<>>
        ELSE IF Len(p) >= 2 /\ p[1] = "*" /\ p[2] = "*"
        THEN \/ \E k \in 0..Len(s) :
                   GlobMatches(SubSeq(p, 3, Len(p)), rest(k), FALSE)
             \/ /\ leading
                /\ Len(p) >= 3 /\ p[3] = "/"
                /\ GlobMatches(SubSeq(p, 4, Len(p)), s, FALSE)
        ELSE IF p[1] = "*"
        THEN \E k \in 0..Len(s) :
                /\ \A i \in 1..k : s[i] # "/"
                /\ GlobMatches(Tail(p), rest(k), FALSE)
        ELSE s # <<>> /\ s[1] = p[1] /\ GlobMatches(Tail(p), Tail(s), FALSE)

\* C11: a pattern matches a path only as a whole, "." matching a dot only,
\* "*" a run of characters of one path segment, "**" any run of characters,
\* and a leading "**/" zero directories too: *.json does not match
\* foo/bar.json, **/*.json matches bar.json and foo/bar.json.
C11_PatternMatching ==
    globPc = "matched" =>
        /\ globMatched = GlobMatches(globPattern, globPath, TRUE)
        /\ (globPattern = StarJson /\ globPath = FooBarJson) => ~globMatched
        /\ (globPattern = GlobstarJson /\ globPath \in {BarJson, FooBarJson})
              => globMatched

\* **/a matches the path a, with no directory in front.
C11_Witness ==
    /\ globPc = "matched"
    /\ globPattern = <<"*", "*", "/", "a">>
    /\ globPath = <<"a">>
    /\ globMatched

(***************************************************************************)
(* Properties of a run of the command line (under Spec).                   *)
(***************************************************************************)
\* The document of the first configuration file, from the i-th on, that
\* can be read and holds JSON, if there is one.
RECURSIVE DocumentFrom(_)
DocumentFrom(i) ==
    IF i > Len(rcFiles) THEN {}
    ELSE IF rcFiles[i] = {} THEN DocumentFrom(i + 1)
    ELSE UNION {IF parsed = {} THEN DocumentFrom(i + 1) ELSE parsed :
                   parsed \in {JSONParse(TheOne(rcFiles[i]))}}

ConfigDocument == DocumentFrom(1)

\* The sortFrom of a file's winning override, if it has one.
OverrideSortFrom(file) ==
    LET resolved == getFileConfig(file, config.sortFrom, config.files)
    IN  IF resolved.matchedPattern = {} THEN {}
        ELSE LET winner == CHOOSE i \in DOMAIN config.files :
                               config.files[i].pattern = TheOne(resolved.matchedPattern)
             IN  config.files[winner].config.sortFrom

\* The top-level sortFrom of a configuration document, if it has one.
TopLevelSortFrom(document) ==
    IF document # {} /\ HasKey(TheOne(document), <<"s", "o", "r", "t", "F", "r", "o", "m">>)
    THEN {IntegerValue(Get(TheOne(document), <<"s", "o", "r", "t", "F", "r", "o", "m">>))}
    ELSE {}

\* C12: the sortFrom used for a file is the value given with --sort-from
\* (0 included) if there is one, else the sortFrom of the file's winning
\* override, else the configuration's top-level sortFrom, else 1.
C12_Precedence ==
    (runPc = "exited" /\ results # <<>>) =>
        \A topLevel \in {TopLevelSortFrom(ConfigDocument)} :
            \A k \in DOMAIN results :
                \A override \in {OverrideSortFrom(results[k].file)} :
                    LET expected ==
                            IF cliOptions.sortFrom # {}
                            THEN TheOne(cliOptions.sortFrom)
                            ELSE IF override # {} THEN TheOne(override)
                            ELSE IF topLevel # {} THEN TheOne(topLevel)
                            ELSE 1
                    IN  /\ results[k].sortFrom = expected
                        /\ results[k].engine # {}
                               => results[k].engine = {expected}

\* --sort-from 0 was given, the configuration resolves package.json to 2,
\* and the file was sorted from depth 0.
C12_Witness ==
    /\ runPc = "exited"
    /\ cliOptions.sortFrom = {0}
    /\ \E k \in DOMAIN results :
          /\ results[k].file = PackageJson
          /\ getFileConfig(PackageJson, config.sortFrom, config.files).sortFrom = 2
          /\ results[k].engine = {0}

\* The run was ended by the configuration: exit code 1, no file looked for,
\* processed or written.
AbortedByConfig ==
    /\ runPc = "exited"
    /\ exitCode = {1}
    /\ found = <<>>
    /\ results = <<>>
    /\ written = <<>>

\* C13: the configuration files are tried in the order of CONFIG_FILE_NAMES,
\* skipping those that are missing or not JSON; with none left the defaults
\* hold (sortFrom 1, include **/*.json, no overrides); the first that is
\* JSON is the configuration if it has the schema's shape and otherwise
\* (an unknown top-level field, a negative sortFrom) ends the run with
\* exit code 1 before any file is processed or written.
C13_ConfigLoading ==
    runPc \in {"loaded", "exited"} =>
        \A document \in {ConfigDocument} :
            IF document = {}
            THEN config = [include |-> <<<<"*", "*", "/", "*", ".", "j", "s", "o", "n">>>>, sortFrom |-> {1},
                           files |-> <<>>]
            ELSE \A valid \in {CheckConfig(TheOne(document))} :
                    /\ valid => config = mergeWithDefaults(TheOne(document))
                    /\ ~valid => AbortedByConfig
                    /\ (\/ HasKey(TheOne(document), <<"x">>)
                        \/ TopLevelSortFrom(document) = {-1})
                           => AbortedByConfig

\* .sortjsonrc.json is not JSON, .sortjsonrc has an unknown field and
\* there is a file to process: the run has ended with 1 and no result.
C13_Witness ==
    /\ rcFiles[1] = {TextBroken}
    /\ rcFiles[2] = {ConfigUnknownField}
    /\ disk # <<>>
    /\ AbortedByConfig

\* The texts written to a file in the run.
WrittenTo(file) ==
    {written[i].text : i \in {j \in DOMAIN written : written[j].file = file}}

\* The text of a value sorted from a depth, in the default format.
SortedText(value, from) ==
    formatJson(sortKeysFromDepth(value, from, <<>>, 0), {2}, {FALSE})

\* C14: a file in which detectJsonc finds comments is, without --force,
\* skipped (not an error), neither parsed nor written, and results that
\* are all skipped or success give exit code 0; with --force its comments
\* are stripped and it is parsed, sorted and written as any other file.
C14_JsoncSafety ==
    (runPc = "exited" /\ results # <<>>) =>
        /\ \A k \in DOMAIN results :
              LET r == results[k]
              IN  (r.file \in DOMAIN disk /\ detectJsonc(disk[r.file])) =>
                      IF ~cliOptions.force
                      THEN /\ r.status = "skipped"
                           /\ r.engine = {}
                           /\ WrittenTo(r.file) = {}
                      ELSE /\ r.status # "skipped"
                           /\ \A parsed \in {JSONParse(stripComments(disk[r.file]))} :
                                 parsed # {} =>
                                     /\ r.engine = {r.sortFrom}
                                     /\ (r.status = "success" /\ ~cliOptions.check)
                                            => WrittenTo(r.file) =
                                                   {SortedText(TheOne(parsed), r.sortFrom)}
        /\ (\A k \in DOMAIN results : results[k].status \in {"skipped", "success"})
               => exitCode = {0}

\* A file with a comment was skipped without --force and the run exited
\* with 0.
C14_Witness ==
    /\ runPc = "exited"
    /\ ~cliOptions.force
    /\ exitCode = {0}
    /\ \E k \in DOMAIN results :
          /\ disk[results[k].file] = TextJsonc
          /\ results[k].status = "skipped"

\* The same file with --force and --sort-from 0 was written without its
\* comment and with its keys in order.
C14_WitnessForce ==
    /\ runPc = "exited"
    /\ cliOptions.force
    /\ \E k \in DOMAIN results :
          /\ disk[results[k].file] = TextJsonc
          /\ results[k].status = "success"
          /\ WrittenTo(results[k].file) = {TextSorted}

\* What processFile parses of a file's text.
ParsedFile(text) ==
    JSONParse(IF detectJsonc(text) THEN stripComments(text) ELSE text)

\* C15 as claimed: under --check a file's result is changed exactly when
\* the formatted sorted text differs from the file's contents, in key order
\* or in white space alone, and success exactly when they are equal.
C15_CheckAgainstContents ==
    (runPc = "exited" /\ cliOptions.check) =>
        \A k \in DOMAIN results :
            LET r == results[k]
            IN  r.status \in {"changed", "success"} =>
                    \A parsed \in {ParsedFile(disk[r.file])} :
                        (r.status = "changed")
                            <=> (SortedText(TheOne(parsed), r.sortFrom) # disk[r.file])

\* C15, amended: under --check a file's result is changed exactly when
\* sorting changes the order of keys of the parsed value, and success
\* otherwise: the sorted text is compared with the parsed value formatted
\* the same way, so a difference in white space alone is success.
C15_CheckAgainstReformatted ==
    (runPc = "exited" /\ cliOptions.check) =>
        \A k \in DOMAIN results :
            LET r == results[k]
            IN  r.status \in {"changed", "success"} =>
                    \A parsed \in {ParsedFile(disk[r.file])} :
                        /\ (r.status = "changed")
                               <=> (sortKeysFromDepth(TheOne(parsed), r.sortFrom, <<>>, 0)
                                        # TheOne(parsed))
                        /\ (r.status = "changed")
                               <=> (SortedText(TheOne(parsed), r.sortFrom)
                                        # formatJson(TheOne(parsed), {2}, {FALSE}))

\* Under --check a file with its keys in order and no white space, which
\* differs from its formatted sorted text, has the result success.
C15_Witness ==
    /\ runPc = "exited"
    /\ cliOptions.check
    /\ \E k \in DOMAIN results :
          /\ disk[results[k].file] = TextCompact
          /\ results[k].status = "success"
          /\ SortedText(TheOne(JSONParse(TextCompact)), results[k].sortFrom)
                 # TextCompact

\* The i-th argument is read as an option or a pattern, not as the value
\* of a --sort-from before it.
RECURSIVE IsOption(_)
IsOption(i) ==
    i = 1 \/ ~(argv[i - 1] = ArgSortFrom /\ IsOption(i - 1))

CheckGiven == \E i \in DOMAIN argv : argv[i] = ArgCheck /\ IsOption(i)

\* C16: with -c among the flags, in any order and with -w after it too, no
\* file is written; a file whose result is skipped or error is not
\* written; and a file is written only with check mode off and its text
\* parsed, and then with the formatted sorted text.
C16_WritesOnlyOnWritePath ==
    runPc = "exited" =>
        /\ CheckGiven => written = <<>>
        /\ \A k \in DOMAIN results :
              results[k].status \in {"skipped", "error"}
                  => WrittenTo(results[k].file) = {}
        /\ \A j \in DOMAIN written :
              /\ ~CheckGiven
              /\ written[j].file \in DOMAIN disk
              /\ \A parsed \in {ParsedFile(disk[written[j].file])} :
                    /\ parsed # {}
                    /\ \E k \in DOMAIN results :
                          /\ results[k].file = written[j].file
                          /\ results[k].status = "success"
                          /\ written[j].text =
                                 SortedText(TheOne(parsed), results[k].sortFrom)

\* sort-json -c -w on a file with keys out of order: the result is
\* changed and nothing was written.
C16_Witness ==
    /\ runPc = "exited"
    /\ argv = <<ArgCheck, ArgWrite>>
    /\ written = <<>>
    /\ \E k \in DOMAIN results : results[k].status = "changed"

\* C17: the run exits with 1 exactly when some result is error or changed,
\* or no file was discovered, or the configuration failed validation, and
\* with 0 otherwise, however many results are success or skipped.
C17_ExitCode ==
    runPc = "exited" =>
        /\ exitCode \in {{0}, {1}}
        /\ \A document \in {ConfigDocument} :
              (exitCode = {1}) <=>
                  \/ \E k \in DOMAIN results :
                        results[k].status \in {"error", "changed"}
                  \/ found = <<>>
                  \/ document # {} /\ ~CheckConfig(TheOne(document))

\* Under --check one file is changed, none is an error, and the run has
\* exited with 1.
C17_Witness ==
    /\ runPc = "exited"
    /\ exitCode = {1}
    /\ \E k \in DOMAIN results : results[k].status = "changed"
    /\ \A k \in DOMAIN results : results[k].status # "error"

\* Every discovered file is skipped or a success, both occur, and the run
\* has exited with 0.
C17_WitnessZero ==
    /\ runPc = "exited"
    /\ exitCode = {0}
    /\ \E k \in DOMAIN results : results[k].status = "skipped"
    /\ \E k \in DOMAIN results : results[k].status = "success"

\* The patterns of the command line: the arguments read as options that
\* do not start with "-".
PatternsGiven ==
    {argv[i] : i \in {j \in DOMAIN argv : IsOption(j) /\ argv[j][1] # "-"}}

\* The discovered files that their resolved configuration does not mark
\* as ignored, up to the n-th.
NotIgnored(n) ==
    SelectSeq(SubSeq(found, 1, n),
              LAMBDA f : ~getFileConfig(f, config.sortFrom, config.files).ignore)

\* C18: the discovered files are without duplicates and in ascending
\* order; they are processed one at a time in that order, each file not
\* marked ignore getting exactly one result, whatever the results of the
\* files before it.
C18_SequentialIsolated ==
    runPc \in {"loop", "exited"} /\ found # <<>> =>
        /\ \A i, j \in DOMAIN found :
              i < j => OrdinalCompare(found[i], found[j]) < 0
        /\ Range(found) = IF PatternsGiven # {} THEN PatternsGiven ELSE DOMAIN disk
        /\ [k \in DOMAIN results |-> results[k].file]
               = NotIgnored(IF runPc = "exited" THEN Len(found) ELSE nextFile - 1)

\* bar.json cannot be parsed and package.json, after it, was processed.
C18_Witness ==
    /\ runPc = "exited"
    /\ Len(results) = 2
    /\ results[1].file = BarJson /\ results[1].status = "error"
    /\ results[2].file = PackageJson /\ results[2].status = "success"

\* The same missing file was named twice and has one result.
C18_WitnessDuplicate ==
    /\ runPc = "exited"
    /\ argv = <<ArgX, ArgX>>
    /\ Len(results) = 1

\* C19: the sortFrom with which the sort engine is called is never
\* negative, whatever the argument of --sort-from (a negative number, text
\* that is no number) and whatever the accepted configuration.
C19_EngineSortFromNonNegative ==
    \A k \in DOMAIN results :
        \A from \in results[k].engine : from >= 0

\* C20: a configuration whose override for package.json has a sortOrder is
\* accepted, and with the effective sortFrom 0 the file is written with
\* its root keys in that order, the listed keys first.
C20_SortOrderReachesEngine ==
    (runPc = "exited" /\ ConfigDocument = JSONParse(ConfigSortOrder)) =>
        /\ ~AbortedByConfig
        /\ \A k \in DOMAIN results :
              (/\ results[k].file = PackageJson
               /\ results[k].status = "success"
               /\ results[k].sortFrom = 0
               /\ ~CheckGiven)
                  => \A parsed \in {ParsedFile(disk[PackageJson])} :
                        WrittenTo(PackageJson) =
                            {formatJson(sortKeysFromDepth(TheOne(parsed), 0,
                                                          <<<<"b">>>>, 0),
                                        {2}, {FALSE})}

\* C21: with no --sort-from and no configuration file, a file whose root
\* keys are out of order is rewritten with its root keys in order, and
\* under --check the run exits with 1.
C21_DefaultRunSortsRoot ==
    (/\ runPc = "exited"
     /\ ArgSortFrom \notin Range(argv)
     /\ \A i \in DOMAIN rcFiles : rcFiles[i] = {}) =>
        \A k \in DOMAIN results :
            results[k].status \in {"success", "changed"} =>
                \A parsed \in {ParsedFile(disk[results[k].file])} :
                    \A inOrder \in {KeysOf(sortKeysFromDepth(TheOne(parsed), 0, <<>>, 0))} :
                        (TheOne(parsed).kind = "obj" /\ KeysOf(TheOne(parsed)) # inOrder) =>
                            /\ CheckGiven => exitCode = {1}
                            /\ ~CheckGiven =>
                                   \A text \in WrittenTo(results[k].file) :
                                       KeysOf(TheOne(JSONParse(text))) = inOrder

====
